---------------------------- MODULE Spec2Model ----------------------------
(***************************************************************************)
(* The analytics precomputation engine of abt-dashboard                   *)
(* (internal/services, src/unnamed/part_000): LoadFromCSV with its cache  *)
(* check, the streaming scan loop, processBatch with its parse tasks, the *)
(* aggregation and merge of the four rollups, the sort into a             *)
(* PrecomputedData, the swap under the reader-writer lock, saveToCache,   *)
(* SetData and the five read accessors.                                   *)
(*                                                                         *)
(* Text is modelled at the level of characters: a line is a sequence of   *)
(* one-character strings, strings.Split, strings.TrimSpace, time.Parse,   *)
(* strconv.Atoi and strconv.ParseFloat are computed on those sequences.   *)
(* Parsed text fields (country, product name, ...) are TLA+ strings, so   *)
(* that the map keys built by concatenation are computed as the code      *)
(* computes them.                                                         *)
(*                                                                         *)
(* Amounts (price, total price) are held in hundredths.  The files and    *)
(* inputs of the model only use amounts that float64 represents exactly   *)
(* (whole numbers and halves), on which float64 addition is exact; NaN,   *)
(* infinities and exponent notation are outside the model's inputs.       *)
(*                                                                         *)
(* Around the engine: SSEHandlers.HandleRefreshAll (src/unnamed/part_003), *)
(* the RateLimiter and the middleware chain of main                        *)
(* (internal/middleware, internal/errors), and GracefulServer              *)
(* (internal/server/shutdown.go).                                          *)
(***************************************************************************)
EXTENDS Integers, Sequences, FiniteSets, TLC

(***************************************************************************)
(* Program constants (scaled where the source value cannot be enumerated) *)
(***************************************************************************)
\* const batchSize = 10000, scaled to 2 lines per batch
batchSize == 2
\* const maxWorkers = 10
maxWorkers == 10
\* parseTransactionFast: len(record) < 13
minColumns == 13

(***************************************************************************)
(* Bounds of the model                                                     *)
(***************************************************************************)
\* how far the wall clock advances
MaxClock == 2
\* how many times the environment rewrites the source file
MaxWrites == 1
\* how many LoadFromCSV calls are made
MaxLoads == 2
\* how many SetData calls are made beside LoadFromCSV
MaxSetData == 1
\* how many SetData calls are made in the aggregation specification
MaxAggCalls == 2
\* largest limit passed to TopProducts / TopRegions
MaxLimit == 3
\* longest input of SetData in the aggregation specification
MaxTx == 3
\* longest source path
MaxPath == 3
\* the lines of the batch whose parse tasks are followed one by one
MaxBatch == 11
\* how many calls of Allow, or requests, are made
MaxRequests == 3
\* how many shutdown hooks are registered
MaxHooks == 2

(***************************************************************************)
(* Text: strings.Split, strings.TrimSpace, strconv.Atoi,                   *)
(* strconv.ParseFloat, time.Parse, Time.Format                             *)
(***************************************************************************)
Digits == {"0", "1", "2", "3", "4", "5", "6", "7", "8", "9"}

DigitVal(c) ==
    CASE c = "0" -> 0 [] c = "1" -> 1 [] c = "2" -> 2 [] c = "3" -> 3
      [] c = "4" -> 4 [] c = "5" -> 5 [] c = "6" -> 6 [] c = "7" -> 7
      [] c = "8" -> 8 [] c = "9" -> 9

DigitChar(n) ==
    CASE n = 0 -> "0" [] n = 1 -> "1" [] n = 2 -> "2" [] n = 3 -> "3"
      [] n = 4 -> "4" [] n = 5 -> "5" [] n = 6 -> "6" [] n = 7 -> "7"
      [] n = 8 -> "8" [] n = 9 -> "9"

WhiteSpace == {" ", "\t", "\r", "\n"}

\* the TLA+ string spelled by a sequence of characters
RECURSIVE StrOf(_)
StrOf(cs) == IF cs = <<>> THEN "" ELSE Head(cs) \o StrOf(Tail(cs))

\* strings.Split(line, sep): the fields between the separators, at least one
RECURSIVE SplitFrom(_, _, _)
SplitFrom(cs, sep, cur) ==
    IF cs = <<>> THEN <<cur>>
    ELSE IF Head(cs) = sep THEN <<cur>> \o SplitFrom(Tail(cs), sep, <<>>)
    ELSE SplitFrom(Tail(cs), sep, Append(cur, Head(cs)))

Split(line, sep) == SplitFrom(line, sep, <<>>)

RECURSIVE TrimLeft(_)
TrimLeft(cs) ==
    IF cs # <<>> /\ Head(cs) \in WhiteSpace THEN TrimLeft(Tail(cs)) ELSE cs

RECURSIVE TrimRight(_)
TrimRight(cs) ==
    IF cs # <<>> /\ cs[Len(cs)] \in WhiteSpace
    THEN TrimRight(SubSeq(cs, 1, Len(cs) - 1)) ELSE cs

\* strings.TrimSpace
TrimSpace(cs) == TrimRight(TrimLeft(cs))

AllDigits(cs) == \A i \in 1..Len(cs) : cs[i] \in Digits

RECURSIVE DecVal(_)
DecVal(cs) ==
    IF cs = <<>> THEN 0
    ELSE 10 * DecVal(SubSeq(cs, 1, Len(cs) - 1)) + DigitVal(cs[Len(cs)])

\* a parse result: ok with a value, or an error
Ok(v) == [ok |-> TRUE, val |-> v]
Err == [ok |-> FALSE, val |-> 0]

\* strconv.Atoi: an optional sign and at least one decimal digit
Atoi(cs) ==
    LET signed == cs # <<>> /\ Head(cs) \in {"+", "-"}
        body == IF signed THEN Tail(cs) ELSE cs
    IN  IF body = <<>> \/ ~AllDigits(body) THEN Err
        ELSE IF signed /\ Head(cs) = "-" THEN Ok(0 - DecVal(body))
        ELSE Ok(DecVal(body))

\* strconv.ParseFloat(s, 64) on plain decimal notation (sign, digits, an
\* optional point and digits); the value in hundredths
ParseFloat(cs) ==
    LET signed == cs # <<>> /\ Head(cs) \in {"+", "-"}
        body == IF signed THEN Tail(cs) ELSE cs
        parts == Split(body, ".")
        ip == parts[1]
        fp == IF Len(parts) = 2 THEN parts[2] ELSE <<>>
        f2 == SubSeq(fp \o <<"0", "0">>, 1, 2)
        mag == 100 * DecVal(ip) + DecVal(f2)
    IN  IF Len(parts) > 2 \/ (ip = <<>> /\ fp = <<>>)
           \/ ~AllDigits(ip) \/ ~AllDigits(fp) THEN Err
        ELSE IF signed /\ Head(cs) = "-" THEN Ok(0 - mag)
        ELSE Ok(mag)

IsLeap(y) == (y % 4 = 0 /\ y % 100 # 0) \/ y % 400 = 0

DaysIn(y, m) ==
    IF m = 2 THEN (IF IsLeap(y) THEN 29 ELSE 28)
    ELSE IF m \in {4, 6, 9, 11} THEN 30 ELSE 31

\* time.Parse("2006-01-02", s): four digits, "-", two digits, "-", two digits,
\* no other text, month and day in range
ParseDate(cs) ==
    IF Len(cs) # 10 \/ cs[5] # "-" \/ cs[8] # "-"
       \/ ~AllDigits(SubSeq(cs, 1, 4)) \/ ~AllDigits(SubSeq(cs, 6, 7))
       \/ ~AllDigits(SubSeq(cs, 9, 10)) THEN Err
    ELSE LET y == DecVal(SubSeq(cs, 1, 4))
             m == DecVal(SubSeq(cs, 6, 7))
             d == DecVal(SubSeq(cs, 9, 10))
         IN  IF m \notin 1..12 \/ d \notin 1..DaysIn(y, m) THEN Err
             ELSE Ok([year |-> y, month |-> m, day |-> d])

\* n written with at least w decimal digits
RECURSIVE Pad(_, _)
Pad(n, w) ==
    IF w <= 1 /\ n < 10 THEN DigitChar(n)
    ELSE Pad(n \div 10, w - 1) \o DigitChar(n % 10)

\* faulty variant: the month is left out of the key
FormatYear(date) == Pad(date.year, 4)

\* tx.Date.Format("2006-01")
FormatMonth(date) == Pad(date.year, 4) \o "-" \o Pad(date.month, 2)

(***************************************************************************)
(* parseTransactionFast                                                    *)
(***************************************************************************)
Transaction(date, country, region, product, category, price, qty, total, stock) ==
    [Date |-> date, Country |-> country, Region |-> region,
     ProductName |-> product, Category |-> category, Price |-> price,
     Quantity |-> qty, TotalPrice |-> total, Stock |-> stock]

\* record is the result of strings.Split(line, ","): record[i + 1] is the
\* source's record[i]
parseTransactionFast(record) ==
    IF Len(record) < minColumns THEN Err
    ELSE LET transactionDate == ParseDate(TrimSpace(record[2]))
             price == ParseFloat(TrimSpace(record[9]))
             quantity == Atoi(TrimSpace(record[10]))
             totalPrice == ParseFloat(TrimSpace(record[11]))
             stock == Atoi(TrimSpace(record[12]))
         IN  IF ~transactionDate.ok \/ ~price.ok \/ ~quantity.ok
                \/ ~totalPrice.ok \/ ~stock.ok THEN Err
             ELSE Ok(Transaction(transactionDate.val,
                                 StrOf(TrimSpace(record[4])),
                                 StrOf(TrimSpace(record[5])),
                                 StrOf(TrimSpace(record[7])),
                                 StrOf(TrimSpace(record[8])),
                                 price.val, quantity.val, totalPrice.val,
                                 stock.val))

\* the body of one parse task of processBatch on its line
ParseLine(line) == parseTransactionFast(Split(line, ","))

(***************************************************************************)
(* Aggregation maps: a Go map[string]*T is a function on its set of keys  *)
(***************************************************************************)
EmptyMap == <<>>

Has(m, k) == k \in DOMAIN m

Put(m, k, v) == [x \in DOMAIN m \cup {k} |-> IF x = k THEN v ELSE m[x]]

\* float64 addition of two amounts
FAdd(x, y) == x + y

EmptyGroups ==
    [country |-> EmptyMap, product |-> EmptyMap,
     monthly |-> EmptyMap, region |-> EmptyMap]

\* countryKey := tx.Country + "|" + tx.ProductName + "|" + tx.Category
countryKey(tx) == tx.Country \o "|" \o tx.ProductName \o "|" \o tx.Category

\* country revenue aggregation of aggregateTransaction
aggregateCountry(tx, countryGroups) ==
    LET k == countryKey(tx)
        cur == IF Has(countryGroups, k) THEN countryGroups[k]
               ELSE [Country |-> tx.Country, ProductName |-> tx.ProductName,
                     Category |-> tx.Category, TotalRevenue |-> 0,
                     Transactions |-> 0]
    IN  Put(countryGroups, k,
            [cur EXCEPT !.TotalRevenue = FAdd(@, tx.TotalPrice),
                        !.Transactions = @ + 1])

\* faulty variant: Frequency grows by the quantity sold
aggregateProductByQuantity(tx, productGroups) ==
    LET k == tx.ProductName
        cur == IF Has(productGroups, k) THEN productGroups[k]
               ELSE [ProductName |-> tx.ProductName, Category |-> tx.Category,
                     StockQuantity |-> tx.Stock, Frequency |-> 0]
    IN  Put(productGroups, k, [cur EXCEPT !.Frequency = @ + tx.Quantity])

\* product frequency aggregation of aggregateTransaction
aggregateProduct(tx, productGroups) ==
    LET k == tx.ProductName
        cur == IF Has(productGroups, k) THEN productGroups[k]
               ELSE [ProductName |-> tx.ProductName, Category |-> tx.Category,
                     StockQuantity |-> tx.Stock, Frequency |-> 0]
    IN  Put(productGroups, k, [cur EXCEPT !.Frequency = @ + 1])

\* monthly sales aggregation of aggregateTransaction
aggregateMonthly(tx, monthlyGroups) ==
    LET month == FormatMonth(tx.Date)
        cur == IF Has(monthlyGroups, month) THEN monthlyGroups[month] ELSE 0
    IN  Put(monthlyGroups, month, FAdd(cur, tx.TotalPrice))

\* faulty variant: ItemsSold grows by one per transaction
aggregateRegionByRows(tx, regionGroups) ==
    LET k == tx.Region
        cur == IF Has(regionGroups, k) THEN regionGroups[k]
               ELSE [Region |-> tx.Region, Revenue |-> 0, ItemsSold |-> 0]
    IN  Put(regionGroups, k,
            [cur EXCEPT !.Revenue = FAdd(@, tx.TotalPrice),
                        !.ItemsSold = @ + 1])

\* region revenue aggregation of aggregateTransaction
aggregateRegion(tx, regionGroups) ==
    LET k == tx.Region
        cur == IF Has(regionGroups, k) THEN regionGroups[k]
               ELSE [Region |-> tx.Region, Revenue |-> 0, ItemsSold |-> 0]
    IN  Put(regionGroups, k,
            [cur EXCEPT !.Revenue = FAdd(@, tx.TotalPrice),
                        !.ItemsSold = @ + tx.Quantity])

aggregateTransaction(tx, g) ==
    [country |-> aggregateCountry(tx, g.country),
     product |-> aggregateProduct(tx, g.product),
     monthly |-> aggregateMonthly(tx, g.monthly),
     region |-> aggregateRegion(tx, g.region)]

\* for _, tx := range data { a.aggregateTransaction(tx, ...) }
RECURSIVE aggregateAll(_, _)
aggregateAll(data, g) ==
    IF data = <<>> THEN g
    ELSE aggregateAll(Tail(data), aggregateTransaction(Head(data), g))

mergeResults(local, global) ==
    [k \in DOMAIN global \cup DOMAIN local |->
        IF ~Has(local, k) THEN global[k]
        ELSE LET v == local[k]
                 cur == IF Has(global, k) THEN global[k]
                        ELSE [Country |-> v.Country,
                              ProductName |-> v.ProductName,
                              Category |-> v.Category, TotalRevenue |-> 0,
                              Transactions |-> 0]
             IN  [cur EXCEPT !.TotalRevenue = FAdd(@, v.TotalRevenue),
                             !.Transactions = @ + v.Transactions]]

mergeProductResults(local, global) ==
    [k \in DOMAIN global \cup DOMAIN local |->
        IF ~Has(local, k) THEN global[k]
        ELSE LET v == local[k]
                 cur == IF Has(global, k) THEN global[k]
                        ELSE [ProductName |-> v.ProductName,
                              Category |-> v.Category,
                              StockQuantity |-> v.StockQuantity,
                              Frequency |-> 0]
             IN  [cur EXCEPT !.Frequency = @ + v.Frequency]]

\* faulty variant: the local volume replaces the global one
mergeMonthlyOverwrites(local, global) ==
    [k \in DOMAIN global \cup DOMAIN local |->
        IF ~Has(local, k) THEN global[k] ELSE local[k]]

mergeMonthlyResults(local, global) ==
    [k \in DOMAIN global \cup DOMAIN local |->
        IF ~Has(local, k) THEN global[k]
        ELSE FAdd(IF Has(global, k) THEN global[k] ELSE 0, local[k])]

mergeRegionResults(local, global) ==
    [k \in DOMAIN global \cup DOMAIN local |->
        IF ~Has(local, k) THEN global[k]
        ELSE LET v == local[k]
                 cur == IF Has(global, k) THEN global[k]
                        ELSE [Region |-> v.Region, Revenue |-> 0,
                              ItemsSold |-> 0]
             IN  [cur EXCEPT !.Revenue = FAdd(@, v.Revenue),
                             !.ItemsSold = @ + v.ItemsSold]]

\* the four merges of processBatch under mu
mergeAll(local, global) ==
    [country |-> mergeResults(local.country, global.country),
     product |-> mergeProductResults(local.product, global.product),
     monthly |-> mergeMonthlyResults(local.monthly, global.monthly),
     region |-> mergeRegionResults(local.region, global.region)]

(***************************************************************************)
(* Sorting: slices.SortFunc on at most 12 elements is an insertion sort   *)
(* of the slice built by ranging over the map; the order in which range   *)
(* visits the keys is not determined                                      *)
(***************************************************************************)
\* the orders in which range may visit the keys of m
IterOrders(m) ==
    {o \in [1..Cardinality(DOMAIN m) -> DOMAIN m] :
        \A i, j \in DOMAIN o : i # j => o[i] # o[j]}

\* faulty variant: the comparison is the other way round
cmpAsc(x, y) == IF x < y THEN -1 ELSE IF x > y THEN 1 ELSE 0

\* the comparison functions: -1 when a sorts before b
cmpDesc(x, y) == IF x > y THEN -1 ELSE IF x < y THEN 1 ELSE 0

cmpCountryRevenue(a, b) == cmpDesc(a.TotalRevenue, b.TotalRevenue)
cmpTopProducts(a, b) == cmpDesc(a.Frequency, b.Frequency)
cmpMonthlySales(a, b) == cmpDesc(a.Volume, b.Volume)
cmpTopRegions(a, b) == cmpDesc(a.Revenue, b.Revenue)

\* the comparison function each sort passes to slices.SortFunc
cmpOf(kind, a, b) ==
    CASE kind = "country" -> cmpCountryRevenue(a, b)
      [] kind = "product" -> cmpTopProducts(a, b)
      [] kind = "monthly" -> cmpMonthlySales(a, b)
      [] kind = "region" -> cmpTopRegions(a, b)

\* the inner loop of the insertion sort: x moves left while cmp(x, prev) < 0
RECURSIVE InsertLeft(_, _, _, _)
InsertLeft(sorted, x, j, kind) ==
    IF j >= 1 /\ cmpOf(kind, x, sorted[j]) < 0
    THEN InsertLeft(sorted, x, j - 1, kind)
    ELSE SubSeq(sorted, 1, j) \o <<x>> \o SubSeq(sorted, j + 1, Len(sorted))

RECURSIVE InsertionSortFrom(_, _, _)
InsertionSortFrom(done, rest, kind) ==
    IF rest = <<>> THEN done
    ELSE InsertionSortFrom(InsertLeft(done, Head(rest), Len(done), kind),
                           Tail(rest), kind)

SortFunc(s, kind) == InsertionSortFrom(<<>>, s, kind)

sortCountryRevenue(groups, order) ==
    SortFunc([i \in DOMAIN order |-> groups[order[i]]], "country")

sortTopProducts(groups, order) ==
    SortFunc([i \in DOMAIN order |-> groups[order[i]]], "product")

sortMonthlySales(groups, order) ==
    SortFunc([i \in DOMAIN order |->
                 [Month |-> order[i], Volume |-> groups[order[i]]]],
             "monthly")

sortTopRegions(groups, order) ==
    SortFunc([i \in DOMAIN order |-> groups[order[i]]], "region")

(***************************************************************************)
(* PrecomputedData                                                         *)
(***************************************************************************)
\* the iteration orders of one finalization, one per map
IterChoices(g) ==
    [country : IterOrders(g.country), product : IterOrders(g.product),
     monthly : IterOrders(g.monthly), region : IterOrders(g.region)]

\* &PrecomputedData{...} built from the four maps
Finalize(g, o, recordCount, now) ==
    [CountryRevenue |-> sortCountryRevenue(g.country, o.country),
     TopProducts |-> sortTopProducts(g.product, o.product),
     MonthlySales |-> sortMonthlySales(g.monthly, o.monthly),
     TopRegions |-> sortTopRegions(g.region, o.region),
     LastModified |-> now,
     RecordCount |-> recordCount]

\* NewAnalytics: precomputed: &PrecomputedData{}
EmptyData ==
    [CountryRevenue |-> <<>>, TopProducts |-> <<>>, MonthlySales |-> <<>>,
     TopRegions |-> <<>>, LastModified |-> 0, RecordCount |-> 0]

computeAnalytics(data, o, now) ==
    Finalize(aggregateAll(data, EmptyGroups), o, Len(data), now)

\* gob encoding of a PrecomputedData: the exported fields in declaration order
GobEncode(d) ==
    <<d.CountryRevenue, d.TopProducts, d.MonthlySales, d.TopRegions,
      d.LastModified, d.RecordCount>>

\* faulty variant: RecordCount is not restored
GobDecodeDropsCount(b) ==
    [CountryRevenue |-> b[1], TopProducts |-> b[2], MonthlySales |-> b[3],
     TopRegions |-> b[4], LastModified |-> b[5], RecordCount |-> 0]

GobDecode(b) ==
    [CountryRevenue |-> b[1], TopProducts |-> b[2], MonthlySales |-> b[3],
     TopRegions |-> b[4], LastModified |-> b[5], RecordCount |-> b[6]]

(***************************************************************************)
(* Inputs of the model: source files and SetData arguments                *)
(***************************************************************************)
RECURSIVE Join(_, _)
Join(fields, sep) ==
    IF Len(fields) = 0 THEN <<>>
    ELSE IF Len(fields) = 1 THEN fields[1]
    ELSE fields[1] \o <<sep>> \o Join(Tail(fields), sep)

\* a 13-column line: id, date, user, country, region, product id, product
\* name, category, price, quantity, total price, stock, added date
Row(date, country, region, product, category, price, qty, total, stock) ==
    Join(<< <<"T">>, date, <<"u">>, country, region, <<"p">>, product,
            category, price, qty, total, stock, <<"x">> >>, ",")

Jan15 == <<"2", "0", "2", "3", "-", "0", "1", "-", "1", "5">>
Feb01 == <<"2", "0", "2", "3", "-", "0", "2", "-", "0", "1">>
Feb30 == <<"2", "0", "2", "3", "-", "0", "2", "-", "3", "0">>

HeaderLine == Join(<< <<"i", "d">>, <<"d", "a", "t", "e">> >>, ",")

GoodA == Row(Jan15, <<"U">>, <<"W">>, <<"L">>, <<"E">>,
             <<"1">>, <<"1">>, <<"1", ".", "5">>, <<"5">>)
GoodB == Row(Feb01, <<"C">>, <<" ", "E">>, <<"M">>, <<"E">>,
             <<"2">>, <<"2">>, <<"4">>, <<"7">>)
GoodC == Row(Feb01, <<"U">>, <<"W">>, <<"L">>, <<"E">>,
             <<"3">>, <<"1">>, <<"3">>, <<"4">>)
ShortRow == Join(<< <<"T">>, Jan15, <<"u">>, <<"U">>, <<"W">>, <<"p">>,
                    <<"L">>, <<"E">>, <<"1">>, <<"1">>, <<"1">>, <<"5">> >>, ",")
BadDate == Row(Feb30, <<"U">>, <<"W">>, <<"L">>, <<"E">>,
               <<"1">>, <<"1">>, <<"1">>, <<"5">>)
BadPrice == Row(Jan15, <<"U">>, <<"W">>, <<"L">>, <<"E">>,
                <<"x">>, <<"1">>, <<"1">>, <<"5">>)
BadQty == Row(Jan15, <<"U">>, <<"W">>, <<"L">>, <<"E">>,
              <<"1">>, <<"1", ".", "5">>, <<"1">>, <<"5">>)
BadTotal == Row(Jan15, <<"U">>, <<"W">>, <<"L">>, <<"E">>,
                <<"1">>, <<"1">>, <<>>, <<"5">>)
BadStock == Row(Jan15, <<"U">>, <<"W">>, <<"L">>, <<"E">>,
                <<"1">>, <<"1">>, <<"1">>, Jan15)

\* the contents the source file may have: no line, a header only, malformed
\* rows only, and two contents with well-formed rows among malformed ones
FileContents ==
    { <<>>,
      <<HeaderLine>>,
      <<HeaderLine, ShortRow, BadDate, BadPrice>>,
      <<HeaderLine, GoodA, BadQty, GoodB>>,
      <<HeaderLine, BadTotal, GoodC, BadStock>> }

\* a file whose two rows, of one product with stocks 5 and 4, share a batch
OrderFile == <<HeaderLine, GoodA, GoodC>>

\* the data file of the README (Data Format): the header and the sample row,
\* added_date in column 11 and stock_quantity in column 12
ReadmeHeader ==
    <<"t", "r", "a", "n", "s", "a", "c", "t", "i", "o", "n", "_", "i", "d",
      ",", "t", "r", "a", "n", "s", "a", "c", "t", "i", "o", "n", "_", "d",
      "a", "t", "e", ",", "u", "s", "e", "r", "_", "i", "d", ",", "c", "o",
      "u", "n", "t", "r", "y", ",", "r", "e", "g", "i", "o", "n", ",", "p",
      "r", "o", "d", "u", "c", "t", "_", "i", "d", ",", "p", "r", "o", "d",
      "u", "c", "t", "_", "n", "a", "m", "e", ",", "c", "a", "t", "e", "g",
      "o", "r", "y", ",", "p", "r", "i", "c", "e", ",", "q", "u", "a", "n",
      "t", "i", "t", "y", ",", "t", "o", "t", "a", "l", "_", "p", "r", "i",
      "c", "e", ",", "a", "d", "d", "e", "d", "_", "d", "a", "t", "e", ",",
      "s", "t", "o", "c", "k", "_", "q", "u", "a", "n", "t", "i", "t", "y">>
ReadmeRow ==
    <<"T", "0", "0", "1", ",", "2", "0", "2", "3", "-", "0", "1", "-", "1",
      "5", ",", "U", "0", "0", "1", ",", "U", "S", "A", ",", "C", "a", "l",
      "i", "f", "o", "r", "n", "i", "a", ",", "P", "0", "0", "1", ",", "L",
      "a", "p", "t", "o", "p", ",", "E", "l", "e", "c", "t", "r", "o", "n",
      "i", "c", "s", ",", "9", "9", "9", ".", "9", "9", ",", "1", ",", "9",
      "9", "9", ".", "9", "9", ",", "2", "0", "2", "3", "-", "0", "1", "-",
      "0", "1", ",", "5", "0">>
ReadmeFile == <<ReadmeHeader, ReadmeRow>>

\* the file of the engine's own test (validCSV): stock in column 11 and
\* added_date in column 12
TestHeader ==
    <<"t", "r", "a", "n", "s", "a", "c", "t", "i", "o", "n", "_", "i", "d",
      ",", "t", "r", "a", "n", "s", "a", "c", "t", "i", "o", "n", "_", "d",
      "a", "t", "e", ",", "u", "s", "e", "r", "_", "i", "d", ",", "c", "o",
      "u", "n", "t", "r", "y", ",", "r", "e", "g", "i", "o", "n", ",", "p",
      "r", "o", "d", "u", "c", "t", "_", "i", "d", ",", "p", "r", "o", "d",
      "u", "c", "t", "_", "n", "a", "m", "e", ",", "c", "a", "t", "e", "g",
      "o", "r", "y", ",", "p", "r", "i", "c", "e", ",", "q", "u", "a", "n",
      "t", "i", "t", "y", ",", "t", "o", "t", "a", "l", "_", "p", "r", "i",
      "c", "e", ",", "s", "t", "o", "c", "k", ",", "a", "d", "d", "e", "d",
      "_", "d", "a", "t", "e">>
TestRow ==
    <<"T", "0", "0", "1", ",", "2", "0", "2", "3", "-", "0", "1", "-", "1",
      "5", ",", "U", "0", "0", "1", ",", "U", "S", "A", ",", "C", "a", "l",
      "i", "f", "o", "r", "n", "i", "a", ",", "P", "0", "0", "1", ",", "L",
      "a", "p", "t", "o", "p", ",", "E", "l", "e", "c", "t", "r", "o", "n",
      "i", "c", "s", ",", "9", "9", "9", ".", "9", "9", ",", "1", ",", "9",
      "9", "9", ".", "9", "9", ",", "5", "0", ",", "2", "0", "2", "3", "-",
      "0", "1", "-", "0", "1">>
TestFile == <<TestHeader, TestRow>>

Day(y, m, d) == [year |-> y, month |-> m, day |-> d]

\* transactions given to SetData; "a|b" + "c" and "a" + "b|c" spell the same
\* text around a separator
TxP == Transaction(Day(2023, 1, 15), "a|b", "W", "c", "x", 100, 1, 100, 5)
TxQ == Transaction(Day(2023, 1, 16), "a", "W", "b|c", "x", 250, 2, 250, 7)
TxR == Transaction(Day(2023, 2, 1), "a", "E", "c", "x", 100, 3, 300, 9)
TxS == Transaction(Day(2023, 2, 1), "a", "E", "c", "y", 50, 1, 50, 2)

TxDomain == {TxP, TxQ, TxR, TxS}

RECURSIVE SeqsUpTo(_, _)
SeqsUpTo(S, n) ==
    IF n = 0 THEN {<<>>}
    ELSE LET shorter == SeqsUpTo(S, n - 1)
         IN  shorter \cup {Append(q, x) : q \in {r \in shorter : Len(r) = n - 1},
                                          x \in S}

\* SetData arguments of the aggregation specification
AggInputs == SeqsUpTo(TxDomain, MaxTx)

\* SetData arguments of the engine specification
EngineInputs == {<<>>, <<TxS, TxR>>}

(***************************************************************************)
(* State                                                                   *)
(***************************************************************************)
VARIABLES
    clock,            \* the wall clock read by time.Now()
    file,             \* the source file: exists, lines, mtime
    writes,           \* how many times the file was rewritten
    cache,            \* the cache file of the source path
    precomputed,      \* Analytics.precomputed (the PrecomputedData it points to)
    mu,               \* Analytics.mu: writer held, number of readers
    recordsProcessed, \* Analytics.recordsProcessed
    ld,               \* the LoadFromCSV call: position, locals, result
    sd,               \* the SetData call: position, argument
    rd,               \* the accessor call: position, operation, result
    installed,        \* history: the snapshots published so far
    arg,              \* the data the SetData caller passes
    mg,               \* a merge of two partitions of arg: the maps of each
    cf,               \* the cache directory: a file saved, a file looked up
    ld2,              \* a second LoadFromCSV call, while it is not taking steps
    rh,               \* the HandleRefreshAll call: position, the data it fetched
    rl,               \* the RateLimiter: limiters, mu, cleanup goroutines
    rq,               \* the HTTP requests in the middleware chain
    gs                \* the GracefulServer: hooks, the shutdown call

vars == <<clock, file, writes, cache, precomputed, mu, recordsProcessed,
          ld, sd, rd, installed, arg, mg, cf, ld2, rh, rl, rq, gs>>

NoFile == [exists |-> FALSE, lines |-> <<>>, mtime |-> 0]

NoCache == [kind |-> "absent", bytes |-> <<>>]
CorruptCache == [kind |-> "corrupt", bytes |-> <<>>]

LoaderIdle ==
    [pc |-> "idle", ctx |-> "live", lines |-> <<>>, idx |-> 0,
     batch |-> <<>>, launched |-> 0, running |-> {}, txChan |-> <<>>,
     taskErr |-> FALSE, scanDone |-> FALSE, scanErr |-> FALSE,
     groups |-> EmptyGroups, recordCount |-> 0, cached |-> EmptyData,
     newData |-> EmptyData, result |-> "none", calls |-> 0,
     \* history of the call, for the properties
     pre |-> EmptyData, interfered |-> FALSE, streamed |-> FALSE,
     wrote |-> FALSE, start |-> NoFile]

\* the source file as it is when the program starts
InitialFiles ==
    {NoFile} \cup {[exists |-> TRUE, lines |-> c, mtime |-> 0] : c \in FileContents}

\* no merge made yet
MergeIdle ==
    [pc |-> "idle", left |-> <<>>, right |-> <<>>,
     global |-> EmptyGroups, local |-> EmptyGroups]

\* no cache file written yet
CacheIdle ==
    [pc |-> "idle", owner |-> <<>>, name |-> "", asked |-> <<>>, hit |-> FALSE]

ReaderIdle ==
    [pc |-> "idle", op |-> "none", limit |-> 0, step |-> 0,
     acc |-> [panic |-> FALSE, val |-> <<>>],
     result |-> [panic |-> FALSE, val |-> <<>>], snap |-> EmptyData]

\* no HandleRefreshAll call in progress
RefreshIdle ==
    [pc |-> "idle", countryData |-> <<>>, productsData |-> <<>>,
     monthlyData |-> <<>>, regionsData |-> <<>>]

\* the goroutines that serve requests
Clients == {1, 2}

\* NewRateLimiter: limiters: make(map[string]*rate.Limiter).  A limiter is
\* named by the order of its creation; made[id] is the key it was made for,
\* tokens[id] what its bucket holds; cleanups are the goroutines started
\* beside the limiters; deleted and calls are history.
LimiterNew(enabled) ==
    [enabled |-> enabled, limiters |-> EmptyMap,
     mu |-> [writer |-> FALSE, readers |-> 0],
     made |-> <<>>, tokens |-> <<>>, cleanups |-> {}, deleted |-> {},
     calls |-> 0, charged |-> {}]

LimiterIdle == LimiterNew(TRUE)

\* no request in progress on a goroutine; ran (the middlewares that ran) and
\* sent (the X-Forwarded-For and X-Real-IP headers as the client sent them)
\* are history
RequestIdle ==
    [pc |-> "idle", method |-> "", remote |-> <<>>, xff |-> <<>>,
     xri |-> <<>>, idx |-> 0, ip |-> <<>>, limiter |-> 0, exists |-> FALSE,
     allowed |-> FALSE, status |-> 0, code |-> "", success |-> FALSE,
     reached |-> FALSE, ran |-> <<>>, sent |-> <<>>]

RequestsIdle == [c \in Clients |-> RequestIdle]

\* a goroutine of shutdown that has not been started
NoGoroutine ==
    [pc |-> "none", invoked |-> 0, hookCtx |-> "none", err |-> FALSE,
     late |-> FALSE]

\* NewGracefulServer: shutdownFn: make([]func(ctx context.Context) error, 0).
\* A hook is named by what it does when called.  pc is the position of the
\* goroutine that called ListenAndServe; hooks, i, wg, errChan, errCap, done
\* are the locals of shutdown; hk, srv, waiter the goroutines it starts;
\* atStart, invoked, err and late are history.
ServerIdle ==
    [shutdownFn |-> <<>>, pc |-> "serving", ctx |-> "none", atStart |-> 0,
     hooks |-> <<>>, i |-> 0, wg |-> 0, errChan |-> <<>>, errCap |-> 0,
     hk |-> <<>>, srv |-> NoGoroutine, waiter |-> "none", done |-> FALSE,
     chosen |-> "none", result |-> "none"]

Init ==
    /\ clock = 1
    /\ file \in InitialFiles
    /\ writes = 0
    /\ cache = NoCache
    /\ precomputed = EmptyData
    /\ mu = [writer |-> FALSE, readers |-> 0]
    /\ recordsProcessed = 0
    /\ ld = LoaderIdle
    /\ sd = [pc |-> "idle", data |-> <<>>, calls |-> 0]
    /\ rd = ReaderIdle
    /\ installed = {EmptyData}
    /\ arg \in EngineInputs
    /\ mg = MergeIdle
    /\ cf = CacheIdle
    /\ ld2 = LoaderIdle
    /\ rh = RefreshIdle
    /\ rl = LimiterIdle
    /\ rq = RequestsIdle
    /\ gs = ServerIdle

\* sync.RWMutex: Lock waits for the writer and all readers, RLock for the writer
CanLock(m) == ~m.writer /\ m.readers = 0

\* faulty variant: a reader does not wait for the writer
RLockIgnoresWriter(m) == TRUE

CanRLock(m) == ~m.writer

(***************************************************************************)
(* Environment: time passes, the file is rewritten, the context is        *)
(* cancelled                                                               *)
(***************************************************************************)
Tick ==
    /\ clock < MaxClock
    /\ clock' = clock + 1
    /\ UNCHANGED <<file, writes, cache, precomputed, mu, recordsProcessed,
                   ld, sd, rd, installed, arg, mg, cf, ld2,
                   rh, rl, rq, gs>>

WriteFile ==
    /\ writes < MaxWrites
    /\ \E c \in FileContents :
          file' = [exists |-> TRUE, lines |-> c, mtime |-> clock]
    /\ writes' = writes + 1
    /\ UNCHANGED <<clock, cache, precomputed, mu, recordsProcessed,
                   ld, sd, rd, installed, arg, mg, cf, ld2,
                   rh, rl, rq, gs>>

Cancel ==
    /\ ld.pc # "idle"
    /\ ld.ctx = "live"
    /\ ld' = [ld EXCEPT !.ctx = "cancelled"]
    /\ UNCHANGED <<clock, file, writes, cache, precomputed, mu,
                   recordsProcessed, sd, rd, installed, arg, mg, cf, ld2,
                   rh, rl, rq, gs>>

(***************************************************************************)
(* SetData                                                                 *)
(***************************************************************************)
\* a.mu.Lock()
SetDataLock(maxCalls) ==
    /\ sd.pc = "idle"
    /\ sd.calls < maxCalls
    /\ CanLock(mu)
    /\ sd' = [pc |-> "locked", data |-> arg, calls |-> sd.calls + 1]
    /\ mu' = [mu EXCEPT !.writer = TRUE]
    /\ UNCHANGED <<clock, file, writes, cache, precomputed, recordsProcessed,
                   ld, rd, installed, arg, mg, cf, ld2,
                   rh, rl, rq, gs>>

\* a.precomputed = a.computeAnalytics(data)
SetDataCompute ==
    /\ sd.pc = "locked"
    /\ \E o \in IterChoices(aggregateAll(sd.data, EmptyGroups)) :
          precomputed' = computeAnalytics(sd.data, o, clock)
    /\ sd' = [sd EXCEPT !.pc = "computed"]
    /\ UNCHANGED <<clock, file, writes, cache, mu, recordsProcessed,
                   ld, rd, installed, arg, mg, cf, ld2,
                   rh, rl, rq, gs>>

\* a.precomputed.RecordCount = int64(len(data))
SetDataCount ==
    /\ sd.pc = "computed"
    /\ precomputed' = [precomputed EXCEPT !.RecordCount = Len(sd.data)]
    /\ sd' = [sd EXCEPT !.pc = "counted"]
    /\ UNCHANGED <<clock, file, writes, cache, mu, recordsProcessed,
                   ld, rd, installed, arg, mg, cf, ld2,
                   rh, rl, rq, gs>>

\* a.precomputed.LastModified = time.Now()
SetDataTime ==
    /\ sd.pc = "counted"
    /\ precomputed' = [precomputed EXCEPT !.LastModified = clock]
    /\ sd' = [sd EXCEPT !.pc = "timed"]
    /\ UNCHANGED <<clock, file, writes, cache, mu, recordsProcessed,
                   ld, rd, installed, arg, mg, cf, ld2,
                   rh, rl, rq, gs>>

\* defer a.mu.Unlock()
SetDataUnlock ==
    /\ sd.pc = "timed"
    /\ mu' = [mu EXCEPT !.writer = FALSE]
    /\ sd' = [sd EXCEPT !.pc = "idle"]
    /\ installed' = installed \cup {precomputed}
    /\ ld' = IF ld.pc # "idle" THEN [ld EXCEPT !.interfered = TRUE] ELSE ld
    /\ UNCHANGED <<clock, file, writes, cache, precomputed, recordsProcessed,
                   rd, arg, mg, cf, ld2,
                   rh, rl, rq, gs>>

(***************************************************************************)
(* LoadFromCSV                                                             *)
(***************************************************************************)
\* the call returns res; its locals die, its history is kept
Return(l, res) ==
    [l EXCEPT !.pc = "idle", !.result = res, !.idx = 0, !.batch = <<>>,
              !.launched = 0, !.running = {}, !.txChan = <<>>,
              !.taskErr = FALSE, !.scanDone = FALSE, !.groups = EmptyGroups,
              !.recordCount = 0, !.cached = EmptyData]

\* LoadFromCSV(ctx, filename) is called, with a live or a cancelled context
LoadCall ==
    /\ ld.pc = "idle"
    /\ ld.calls < MaxLoads
    /\ \E c \in {"live", "cancelled"} :
          ld' = [LoaderIdle EXCEPT !.pc = "called", !.ctx = c,
                                   !.calls = ld.calls + 1,
                                   !.pre = precomputed, !.start = file]
    /\ UNCHANGED <<clock, file, writes, cache, precomputed, mu,
                   recordsProcessed, sd, rd, installed, arg, mg, cf, ld2,
                   rh, rl, rq, gs>>

\* faulty variant: the modification time of the file is not looked at
CacheValidAnyAge(c, f) == c.kind = "gob" /\ f.exists

\* loadFromCache succeeded and the file's ModTime is Before cached.LastModified
CacheValid(c, f) ==
    /\ c.kind = "gob"
    /\ f.exists
    /\ f.mtime < GobDecode(c.bytes).LastModified

\* the cache check of LoadFromCSV: loadFromCache, os.Stat
LoadCheckCache ==
    /\ ld.pc = "called"
    /\ ld' = IF CacheValid(cache, file)
             THEN [ld EXCEPT !.pc = "hit", !.cached = GobDecode(cache.bytes)]
             ELSE [ld EXCEPT !.pc = "open"]
    /\ UNCHANGED <<clock, file, writes, cache, precomputed, mu,
                   recordsProcessed, sd, rd, installed, arg, mg, cf, ld2,
                   rh, rl, rq, gs>>

\* a.mu.Lock(); a.precomputed = cached; a.mu.Unlock(); return nil
LoadInstallCache ==
    /\ ld.pc = "hit"
    /\ CanLock(mu)
    /\ precomputed' = ld.cached
    /\ installed' = installed \cup {ld.cached}
    /\ ld' = [Return(ld, "nil") EXCEPT !.wrote = TRUE]
    /\ UNCHANGED <<clock, file, writes, cache, mu, recordsProcessed, sd, rd, arg, mg, cf,
                   ld2,
                   rh, rl, rq, gs>>

\* os.Open(filename) in streamProcessCSV
LoadOpen ==
    /\ ld.pc = "open"
    /\ ld' = IF ~file.exists THEN Return(ld, "open file")
             ELSE [ld EXCEPT !.pc = "header", !.lines = file.lines,
                             !.streamed = TRUE]
    /\ UNCHANGED <<clock, file, writes, cache, precomputed, mu,
                   recordsProcessed, sd, rd, installed, arg, mg, cf, ld2,
                   rh, rl, rq, gs>>

\* skip header: if !scanner.Scan() { return "empty file" }
LoadHeader ==
    /\ ld.pc = "header"
    /\ ld' = IF Len(ld.lines) = 0 THEN Return(ld, "empty file")
             ELSE [ld EXCEPT !.pc = "scan", !.idx = 2]
    /\ UNCHANGED <<clock, file, writes, cache, precomputed, mu,
                   recordsProcessed, sd, rd, installed, arg, mg, cf, ld2,
                   rh, rl, rq, gs>>

\* faulty variant: the lines left in the batch at the end of the file are
\* not processed
AfterLineDropsRemainder(l) ==
    IF Len(l.batch) >= batchSize
    THEN [l EXCEPT !.pc = "batch", !.launched = 0, !.running = {},
                   !.txChan = <<>>, !.taskErr = FALSE]
    ELSE IF l.scanDone THEN [l EXCEPT !.pc = "post", !.batch = <<>>]
    ELSE l

\* where the scan loop goes once the batch is full or the scan is over
AfterLine(l) ==
    IF Len(l.batch) >= batchSize \/ (l.scanDone /\ Len(l.batch) > 0)
    THEN [l EXCEPT !.pc = "batch", !.launched = 0, !.running = {},
                   !.txChan = <<>>, !.taskErr = FALSE]
    ELSE IF l.scanDone THEN [l EXCEPT !.pc = "post"]
    ELSE l

\* one iteration of for scanner.Scan(): the cancellation check, the append
LoadScanLine ==
    /\ ld.pc = "scan"
    /\ ld.idx <= Len(ld.lines)
    /\ ld' = IF ld.ctx = "cancelled" THEN Return(ld, "ctx")
             ELSE AfterLine([ld EXCEPT !.batch = Append(@, ld.lines[ld.idx]),
                                       !.idx = @ + 1])
    /\ UNCHANGED <<clock, file, writes, cache, precomputed, mu,
                   recordsProcessed, sd, rd, installed, arg, mg, cf, ld2,
                   rh, rl, rq, gs>>

\* scanner.Scan() returns false at the end of the file
LoadScanEnd ==
    /\ ld.pc = "scan"
    /\ ld.idx > Len(ld.lines)
    /\ ld' = AfterLine([ld EXCEPT !.scanDone = TRUE])
    /\ UNCHANGED <<clock, file, writes, cache, precomputed, mu,
                   recordsProcessed, sd, rd, installed, arg, mg, cf, ld2,
                   rh, rl, rq, gs>>

\* scanner.Scan() returns false on a read error or a line over the buffer
LoadScanFail ==
    /\ ld.pc = "scan"
    /\ ld.idx <= Len(ld.lines)
    /\ ld' = AfterLine([ld EXCEPT !.scanDone = TRUE, !.scanErr = TRUE])
    /\ UNCHANGED <<clock, file, writes, cache, precomputed, mu,
                   recordsProcessed, sd, rd, installed, arg, mg, cf, ld2,
                   rh, rl, rq, gs>>

\* faulty variant: wg.SetLimit is missing, every wg.Go starts its task at once
TaskGoNoLimit ==
    /\ ld.pc = "batch"
    /\ ld.launched < Len(ld.batch)
    /\ ld' = [ld EXCEPT !.launched = @ + 1,
                        !.running = @ \cup {ld.launched + 1}]
    /\ UNCHANGED <<clock, file, writes, cache, precomputed, mu,
                   recordsProcessed, sd, rd, installed, arg, mg, cf, ld2,
                   rh, rl, rq, gs>>

\* wg.Go(...) of processBatch: the next line's task starts when a worker
\* slot is free
TaskGo ==
    /\ ld.pc = "batch"
    /\ ld.launched < Len(ld.batch)
    /\ Cardinality(ld.running) < maxWorkers
    /\ ld' = [ld EXCEPT !.launched = @ + 1,
                        !.running = @ \cup {ld.launched + 1}]
    /\ UNCHANGED <<clock, file, writes, cache, precomputed, mu,
                   recordsProcessed, sd, rd, installed, arg, mg, cf, ld2,
                   rh, rl, rq, gs>>

\* what a parse task sends on txChan for its line
processedTx(line) ==
    LET r == ParseLine(line)
    IN  IF r.ok THEN [valid |-> TRUE, tx |-> <<r.val>>]
        ELSE [valid |-> FALSE, tx |-> <<>>]

\* the body of a parse task: the cancellation check, the parse, the send
TaskRun(t) ==
    /\ ld.pc = "batch"
    /\ t \in ld.running
    /\ ld' = IF ld.ctx = "cancelled"
             THEN [ld EXCEPT !.running = @ \ {t}, !.taskErr = TRUE]
             ELSE [ld EXCEPT !.running = @ \ {t},
                             !.txChan = Append(@, processedTx(ld.batch[t]))]
    /\ UNCHANGED <<clock, file, writes, cache, precomputed, mu,
                   recordsProcessed, sd, rd, installed, arg, mg, cf, ld2,
                   rh, rl, rq, gs>>

\* for ptx := range txChan { if ptx.valid { aggregateTransaction; localCount++ } }
RECURSIVE aggregateChan(_, _)
aggregateChan(ch, g) ==
    IF ch = <<>> THEN g
    ELSE aggregateChan(Tail(ch),
                       IF Head(ch).valid
                       THEN aggregateTransaction(Head(ch).tx[1], g) ELSE g)

\* faulty variant: every line received counts, valid or not
localCountOfLines(ch) == Len(ch)

localCount(ch) == Cardinality({i \in DOMAIN ch : ch[i].valid})

\* faulty variant: the error of wg.Wait() is dropped
BatchWaitDropsError ==
    /\ ld.pc = "batch"
    /\ ld.launched = Len(ld.batch)
    /\ ld.running = {}
    /\ ld' = [ld EXCEPT
                !.groups = mergeAll(aggregateChan(ld.txChan, EmptyGroups), @),
                !.recordCount = @ + localCount(ld.txChan),
                !.batch = <<>>, !.txChan = <<>>, !.launched = 0,
                !.pc = IF ld.scanDone THEN "post" ELSE "scan"]
    /\ UNCHANGED <<clock, file, writes, cache, precomputed, mu,
                   recordsProcessed, sd, rd, installed, arg, mg, cf, ld2,
                   rh, rl, rq, gs>>

\* wg.Wait() and the rest of processBatch: aggregate, merge, count
BatchWait ==
    /\ ld.pc = "batch"
    /\ ld.launched = Len(ld.batch)
    /\ ld.running = {}
    /\ ld' = IF ld.taskErr THEN Return(ld, "ctx")
             ELSE [ld EXCEPT
                     !.groups = mergeAll(aggregateChan(ld.txChan, EmptyGroups), @),
                     !.recordCount = @ + localCount(ld.txChan),
                     !.batch = <<>>, !.txChan = <<>>, !.launched = 0,
                     !.pc = IF ld.scanDone THEN "post" ELSE "scan"]
    /\ UNCHANGED <<clock, file, writes, cache, precomputed, mu,
                   recordsProcessed, sd, rd, installed, arg, mg, cf, ld2,
                   rh, rl, rq, gs>>

\* faulty variant: the new PrecomputedData is swapped in before the checks
LoadPostSwapsFirst ==
    /\ ld.pc = "post"
    /\ \E o \in IterChoices(ld.groups) :
          LET d == Finalize(ld.groups, o, ld.recordCount, clock)
          IN  /\ precomputed' = d
              /\ ld' = IF ld.scanErr THEN Return(ld, "scan error")
                       ELSE IF ld.recordCount = 0
                       THEN Return(ld, "no valid records")
                       ELSE [ld EXCEPT !.pc = "swap", !.newData = d]
    /\ UNCHANGED <<clock, file, writes, cache, mu, recordsProcessed, sd, rd,
                   installed, arg, mg, cf, ld2,
                   rh, rl, rq, gs>>

\* faulty variant: the check for zero valid records is missing
LoadPostNoZeroCheck ==
    /\ ld.pc = "post"
    /\ \/ /\ ld.scanErr
          /\ ld' = Return(ld, "scan error")
       \/ /\ ~ld.scanErr
          /\ \E o \in IterChoices(ld.groups) :
                ld' = [ld EXCEPT !.pc = "swap",
                                 !.newData = Finalize(ld.groups, o,
                                                      ld.recordCount, clock)]
    /\ UNCHANGED <<clock, file, writes, cache, precomputed, mu,
                   recordsProcessed, sd, rd, installed, arg, mg, cf, ld2,
                   rh, rl, rq, gs>>

\* the end of streamProcessCSV up to the new PrecomputedData: scanner.Err(),
\* recordCount == 0, the four sorts, time.Now()
LoadPost ==
    /\ ld.pc = "post"
    /\ \/ /\ ld.scanErr
          /\ ld' = Return(ld, "scan error")
       \/ /\ ~ld.scanErr
          /\ ld.recordCount = 0
          /\ ld' = Return(ld, "no valid records")
       \/ /\ ~ld.scanErr
          /\ ld.recordCount # 0
          /\ \E o \in IterChoices(ld.groups) :
                ld' = [ld EXCEPT !.pc = "swap",
                                 !.newData = Finalize(ld.groups, o,
                                                      ld.recordCount, clock)]
    /\ UNCHANGED <<clock, file, writes, cache, precomputed, mu,
                   recordsProcessed, sd, rd, installed, arg, mg, cf, ld2,
                   rh, rl, rq, gs>>

\* faulty variant: the record count of the snapshot being replaced is added
\* to the new one
LoadSwapAddsCount ==
    /\ ld.pc = "swap"
    /\ CanLock(mu)
    /\ precomputed' = [ld.newData EXCEPT
                         !.RecordCount = @ + precomputed.RecordCount]
    /\ recordsProcessed' = ld.recordCount
    /\ installed' = installed \cup {ld.newData}
    /\ ld' = [ld EXCEPT !.pc = "save", !.wrote = TRUE]
    /\ UNCHANGED <<clock, file, writes, cache, mu, sd, rd, arg, mg, cf, ld2,
                   rh, rl, rq, gs>>

\* a.mu.Lock(); a.precomputed = precomputed; a.mu.Unlock();
\* a.recordsProcessed.Store(recordCount)
LoadSwap ==
    /\ ld.pc = "swap"
    /\ CanLock(mu)
    /\ precomputed' = ld.newData
    /\ recordsProcessed' = ld.recordCount
    /\ installed' = installed \cup {ld.newData}
    /\ ld' = [ld EXCEPT !.pc = "save", !.wrote = TRUE]
    /\ UNCHANGED <<clock, file, writes, cache, mu, sd, rd, arg, mg, cf,
                   ld2,
                   rh, rl, rq, gs>>

\* faulty variant: a failure of saveToCache is returned to the caller
LoadSaveReturnsError ==
    /\ ld.pc = "save"
    /\ \/ /\ CanRLock(mu)
          /\ cache' = [kind |-> "gob", bytes |-> GobEncode(precomputed)]
          /\ ld' = Return(ld, "nil")
       \/ /\ cache' = cache
          /\ ld' = Return(ld, "save cache")
       \/ /\ CanRLock(mu)
          /\ cache' = CorruptCache
          /\ ld' = Return(ld, "save cache")
    /\ UNCHANGED <<clock, file, writes, precomputed, mu, recordsProcessed,
                   sd, rd, installed, arg, mg, cf, ld2,
                   rh, rl, rq, gs>>

\* saveToCache and the return of LoadFromCSV: the cache file receives the
\* encoding of a.precomputed, read under RLock; MkdirAll or Create may fail
\* (the file is left as it was), Encode may fail (the file is left unusable);
\* the error is logged and LoadFromCSV returns nil
LoadSave ==
    /\ ld.pc = "save"
    /\ \/ /\ CanRLock(mu)
          /\ cache' = [kind |-> "gob", bytes |-> GobEncode(precomputed)]
       \/ cache' = cache
       \/ /\ CanRLock(mu)
          /\ cache' = CorruptCache
    /\ ld' = Return(ld, "nil")
    /\ UNCHANGED <<clock, file, writes, precomputed, mu, recordsProcessed,
                   sd, rd, installed, arg, mg, cf, ld2,
                   rh, rl, rq, gs>>

(***************************************************************************)
(* Two concurrent LoadFromCSV calls on one Analytics.  They share a.mu,   *)
(* a.precomputed, a.recordsProcessed, the source file and the cache file; *)
(* the maps, the batch, the counter and the new PrecomputedData are       *)
(* locals of each call (a.csvPath is written by both and read by none).   *)
(***************************************************************************)
\* the scheduler lets the other call take the next steps
Switch ==
    /\ ld' = ld2
    /\ ld2' = ld
    /\ UNCHANGED <<clock, file, writes, cache, precomputed, mu,
                   recordsProcessed, sd, rd, installed, arg, mg, cf,
                   rh, rl, rq, gs>>

(***************************************************************************)
(* The read accessors                                                      *)
(***************************************************************************)
Accessors ==
    {"CountryRevenue", "TopProducts", "MonthlySales", "TopRegions", "Stats"}

\* the limits passed to TopProducts and TopRegions
Limits == 0..MaxLimit
\* limit is an int: negative limits too
SignedLimits == (0 - MaxLimit)..MaxLimit
SharedLimits == {1}

\* the number of reads of a.precomputed an accessor makes
Reads(op) ==
    CASE op \in {"CountryRevenue", "MonthlySales"} -> 1
      [] op \in {"TopProducts", "TopRegions"} -> 2
      [] op = "Stats" -> 6

\* a value, or the run-time panic of an out-of-range slice expression
Value(v) == [panic |-> FALSE, val |-> v]
Panic == [panic |-> TRUE, val |-> <<>>]

\* s[:n]
SliceTo(s, n) == IF n < 0 \/ n > Len(s) THEN Panic ELSE Value(SubSeq(s, 1, n))

\* faulty variant: TopProducts and TopRegions slice without comparing the length
accessorReadNoGuard(op, limit, step, acc, p) ==
    CASE op = "CountryRevenue" -> Value(p.CountryRevenue)
      [] op = "MonthlySales" -> Value(p.MonthlySales)
      [] op = "TopProducts" ->
            IF step = 1 THEN Value(FALSE) ELSE SliceTo(p.TopProducts, limit)
      [] op = "TopRegions" ->
            IF step = 1 THEN Value(FALSE) ELSE SliceTo(p.TopRegions, limit)
      [] op = "Stats" ->
            Value((IF step = 1 THEN <<>> ELSE acc.val) \o
                  << CASE step = 1 -> p.RecordCount
                       [] step = 2 -> p.LastModified
                       [] step = 3 -> Len(p.CountryRevenue)
                       [] step = 4 -> Len(p.TopProducts)
                       [] step = 5 -> Len(p.MonthlySales)
                       [] step = 6 -> Len(p.TopRegions) >>)

\* the step-th read of a.precomputed (p) by the accessor; acc is what the
\* accessor has evaluated so far
accessorRead(op, limit, step, acc, p) ==
    CASE op = "CountryRevenue" -> Value(p.CountryRevenue)
      [] op = "MonthlySales" -> Value(p.MonthlySales)
      [] op = "TopProducts" ->
            IF step = 1 THEN Value(Len(p.TopProducts) <= limit)
            ELSE IF acc.val THEN Value(p.TopProducts)
            ELSE SliceTo(p.TopProducts, limit)
      [] op = "TopRegions" ->
            IF step = 1 THEN Value(Len(p.TopRegions) <= limit)
            ELSE IF acc.val THEN Value(p.TopRegions)
            ELSE SliceTo(p.TopRegions, limit)
      [] op = "Stats" ->
            Value((IF step = 1 THEN <<>> ELSE acc.val) \o
                  << CASE step = 1 -> p.RecordCount
                       [] step = 2 -> p.LastModified
                       [] step = 3 -> Len(p.CountryRevenue)
                       [] step = 4 -> Len(p.TopProducts)
                       [] step = 5 -> Len(p.MonthlySales)
                       [] step = 6 -> Len(p.TopRegions) >>)

\* an accessor is called: a.mu.RLock()
ReadCall(limits) ==
    /\ rd.pc = "idle"
    /\ CanRLock(mu)
    /\ \E op \in Accessors, n \in limits :
          /\ op \notin {"TopProducts", "TopRegions"} => n = CHOOSE x \in limits : TRUE
          /\ rd' = [pc |-> "locked", op |-> op, limit |-> n, step |-> 1,
                    acc |-> Value(<<>>), result |-> Value(<<>>),
                    snap |-> precomputed]
    /\ mu' = [mu EXCEPT !.readers = @ + 1]
    /\ UNCHANGED <<clock, file, writes, cache, precomputed, recordsProcessed,
                   ld, sd, installed, arg, mg, cf, ld2,
                   rh, rl, rq, gs>>

\* the accessor reads a.precomputed; after its last read it returns and the
\* deferred a.mu.RUnlock() runs
ReadStep ==
    /\ rd.pc = "locked"
    /\ LET r == accessorRead(rd.op, rd.limit, rd.step, rd.acc, precomputed)
       IN  IF rd.step = Reads(rd.op)
           THEN rd' = [rd EXCEPT !.pc = "done", !.result = r,
                                 !.acc = Value(<<>>), !.step = 0]
           ELSE rd' = [rd EXCEPT !.acc = r, !.step = @ + 1]
    /\ mu' = IF rd.step = Reads(rd.op) THEN [mu EXCEPT !.readers = @ - 1]
             ELSE mu
    /\ UNCHANGED <<clock, file, writes, cache, precomputed, recordsProcessed,
                   ld, sd, installed, arg, mg, cf, ld2,
                   rh, rl, rq, gs>>

\* the caller takes the result
ReadDone ==
    /\ rd.pc = "done"
    /\ rd' = ReaderIdle
    /\ UNCHANGED <<clock, file, writes, cache, precomputed, mu,
                   recordsProcessed, ld, sd, installed, arg, mg, cf, ld2,
                   rh, rl, rq, gs>>

(***************************************************************************)
(* SSEHandlers.HandleRefreshAll: four accessor calls, one response         *)
(***************************************************************************)
maxTableRows == 50
maxProducts == 20
maxRegions == 30

\* one whole accessor call on the PrecomputedData p: RLock, its reads, RUnlock
accessorCall(op, limit, p) ==
    IF Reads(op) = 1 THEN accessorRead(op, limit, 1, Value(<<>>), p)
    ELSE accessorRead(op, limit, 2, accessorRead(op, limit, 1, Value(<<>>), p), p)

\* the rows renderCountryTable gives to the template
renderCountryTable(data) ==
    IF Len(data) > maxTableRows THEN SubSeq(data, 1, maxTableRows) ELSE data

\* the handler is called
RefreshCall ==
    /\ rh.pc = "idle"
    /\ rh' = [RefreshIdle EXCEPT !.pc = "country"]
    /\ UNCHANGED <<clock, file, writes, cache, precomputed, mu,
                   recordsProcessed, ld, sd, rd, installed, arg, mg, cf, ld2,
                   rl, rq, gs>>

\* countryData := h.analytics.CountryRevenue(); the table is rendered and sent
RefreshCountry ==
    /\ rh.pc = "country"
    /\ CanRLock(mu)
    /\ rh' = [rh EXCEPT
                !.countryData = renderCountryTable(
                    accessorCall("CountryRevenue", 0, precomputed).val),
                !.pc = "products"]
    /\ UNCHANGED <<clock, file, writes, cache, precomputed, mu,
                   recordsProcessed, ld, sd, rd, installed, arg, mg, cf, ld2,
                   rl, rq, gs>>

\* productsData := h.analytics.TopProducts(maxProducts)
RefreshProducts ==
    /\ rh.pc = "products"
    /\ CanRLock(mu)
    /\ rh' = [rh EXCEPT
                !.productsData =
                    accessorCall("TopProducts", maxProducts, precomputed).val,
                !.pc = "monthly"]
    /\ UNCHANGED <<clock, file, writes, cache, precomputed, mu,
                   recordsProcessed, ld, sd, rd, installed, arg, mg, cf, ld2,
                   rl, rq, gs>>

\* monthlyData := h.analytics.MonthlySales()
RefreshMonthly ==
    /\ rh.pc = "monthly"
    /\ CanRLock(mu)
    /\ rh' = [rh EXCEPT
                !.monthlyData =
                    accessorCall("MonthlySales", 0, precomputed).val,
                !.pc = "regions"]
    /\ UNCHANGED <<clock, file, writes, cache, precomputed, mu,
                   recordsProcessed, ld, sd, rd, installed, arg, mg, cf, ld2,
                   rl, rq, gs>>

\* regionsData := h.analytics.TopRegions(maxRegions)
RefreshRegions ==
    /\ rh.pc = "regions"
    /\ CanRLock(mu)
    /\ rh' = [rh EXCEPT
                !.regionsData =
                    accessorCall("TopRegions", maxRegions, precomputed).val,
                !.pc = "signals"]
    /\ UNCHANGED <<clock, file, writes, cache, precomputed, mu,
                   recordsProcessed, ld, sd, rd, installed, arg, mg, cf, ld2,
                   rl, rq, gs>>

\* json.Marshal of the three signals, sse.PatchSignals, Flush: the response
\* is complete
RefreshSignals ==
    /\ rh.pc = "signals"
    /\ rh' = [rh EXCEPT !.pc = "sent"]
    /\ UNCHANGED <<clock, file, writes, cache, precomputed, mu,
                   recordsProcessed, ld, sd, rd, installed, arg, mg, cf, ld2,
                   rl, rq, gs>>

\* the handler returns
RefreshReturn ==
    /\ rh.pc = "sent"
    /\ rh' = RefreshIdle
    /\ UNCHANGED <<clock, file, writes, cache, precomputed, mu,
                   recordsProcessed, ld, sd, rd, installed, arg, mg, cf, ld2,
                   rl, rq, gs>>

(***************************************************************************)
(* RateLimiter: getLimiter, its cleanup goroutines, Allow                  *)
(***************************************************************************)
\* config.Security.RateLimitBurst, scaled to a bucket of one token
RateLimitBurst == 1

\* the keys Allow is called with directly
AllowIPs == {<<"a">>, <<"b">>}

\* delete(m, k)
Delete(m, k) == [x \in DOMAIN m \ {k} |-> m[x]]

\* rl.Allow(ip) is called: without rate limiting it returns true at once
AllowCallOf(c, ip, r) ==
    [r EXCEPT !.pc = IF rl.enabled THEN "get" ELSE "ret",
              !.ip = ip, !.allowed = ~rl.enabled]

AllowCall(c, ip) ==
    /\ rq[c].pc = "idle"
    /\ rl.calls < MaxRequests
    /\ rq' = [rq EXCEPT ![c] = AllowCallOf(c, ip, RequestIdle)]
    /\ rl' = [rl EXCEPT !.calls = @ + 1]
    /\ UNCHANGED <<clock, file, writes, cache, precomputed, mu,
                   recordsProcessed, ld, sd, rd, installed, arg, mg, cf, ld2,
                   rh, gs>>

\* getLimiter: rl.mu.RLock()
GetRLock(c) ==
    /\ rq[c].pc = "get"
    /\ CanRLock(rl.mu)
    /\ rl' = [rl EXCEPT !.mu.readers = @ + 1]
    /\ rq' = [rq EXCEPT ![c].pc = "rlocked"]
    /\ UNCHANGED <<clock, file, writes, cache, precomputed, mu,
                   recordsProcessed, ld, sd, rd, installed, arg, mg, cf, ld2,
                   rh, gs>>

\* limiter, exists := rl.limiters[ip]; rl.mu.RUnlock()
GetLookup(c) ==
    /\ rq[c].pc = "rlocked"
    /\ rl' = [rl EXCEPT !.mu.readers = @ - 1]
    /\ rq' = [rq EXCEPT
                ![c].exists = Has(rl.limiters, rq[c].ip),
                ![c].limiter = IF Has(rl.limiters, rq[c].ip)
                               THEN rl.limiters[rq[c].ip] ELSE 0,
                ![c].pc = IF Has(rl.limiters, rq[c].ip) THEN "got" ELSE "miss"]
    /\ UNCHANGED <<clock, file, writes, cache, precomputed, mu,
                   recordsProcessed, ld, sd, rd, installed, arg, mg, cf, ld2,
                   rh, gs>>

\* if !exists: rl.mu.Lock()
GetLock(c) ==
    /\ rq[c].pc = "miss"
    /\ CanLock(rl.mu)
    /\ rl' = [rl EXCEPT !.mu.writer = TRUE]
    /\ rq' = [rq EXCEPT ![c].pc = "locked"]
    /\ UNCHANGED <<clock, file, writes, cache, precomputed, mu,
                   recordsProcessed, ld, sd, rd, installed, arg, mg, cf, ld2,
                   rh, gs>>

\* rate.NewLimiter, rl.limiters[ip] = limiter, go func() { ... }
CreateLimiter(c) ==
    LET id == Len(rl.made) + 1
    IN  /\ rl' = [rl EXCEPT
                    !.limiters = Put(@, rq[c].ip, id),
                    !.made = Append(@, rq[c].ip),
                    !.tokens = Append(@, RateLimitBurst),
                    !.cleanups = @ \cup {[ip |-> rq[c].ip, id |-> id,
                                          pc |-> "sleep"]}]
        /\ rq' = [rq EXCEPT ![c].limiter = id, ![c].exists = FALSE,
                            ![c].pc = "unlock"]

\* faulty variant: the map is not looked up again under the write lock
GetCreateNoRecheck(c) ==
    /\ rq[c].pc = "locked"
    /\ CreateLimiter(c)
    /\ UNCHANGED <<clock, file, writes, cache, precomputed, mu,
                   recordsProcessed, ld, sd, rd, installed, arg, mg, cf, ld2,
                   rh, gs>>

\* limiter, exists = rl.limiters[ip]; if !exists, the limiter is made, put
\* in the map and its cleanup goroutine started
GetCreate(c) ==
    /\ rq[c].pc = "locked"
    /\ IF Has(rl.limiters, rq[c].ip)
       THEN /\ rl' = rl
            /\ rq' = [rq EXCEPT ![c].limiter = rl.limiters[rq[c].ip],
                                ![c].exists = TRUE, ![c].pc = "unlock"]
       ELSE CreateLimiter(c)
    /\ UNCHANGED <<clock, file, writes, cache, precomputed, mu,
                   recordsProcessed, ld, sd, rd, installed, arg, mg, cf, ld2,
                   rh, gs>>

\* rl.mu.Unlock(); return limiter
GetUnlock(c) ==
    /\ rq[c].pc = "unlock"
    /\ rl' = [rl EXCEPT !.mu.writer = FALSE]
    /\ rq' = [rq EXCEPT ![c].pc = "got"]
    /\ UNCHANGED <<clock, file, writes, cache, precomputed, mu,
                   recordsProcessed, ld, sd, rd, installed, arg, mg, cf, ld2,
                   rh, gs>>

\* return limiter.Allow(): a token is taken if the bucket holds one
LimiterAllow(c) ==
    /\ rq[c].pc = "got"
    /\ LET id == rq[c].limiter
       IN  /\ rl' = [rl EXCEPT
                       !.tokens[id] = IF @ > 0 THEN @ - 1 ELSE @,
                       !.charged = @ \cup {[remote |-> rq[c].remote,
                                            sent |-> rq[c].sent,
                                            ip |-> rq[c].ip, id |-> id]}]
           /\ rq' = [rq EXCEPT ![c].allowed = rl.tokens[id] > 0,
                               ![c].pc = "ret"]
    /\ UNCHANGED <<clock, file, writes, cache, precomputed, mu,
                   recordsProcessed, ld, sd, rd, installed, arg, mg, cf, ld2,
                   rh, gs>>

\* the direct caller of Allow takes the result
AllowReturn(c) ==
    /\ rq[c].pc = "ret"
    /\ rq[c].idx = 0
    /\ rq' = [rq EXCEPT ![c] = RequestIdle]
    /\ UNCHANGED <<clock, file, writes, cache, precomputed, mu,
                   recordsProcessed, ld, sd, rd, installed, arg, mg, cf, ld2,
                   rh, rl, gs>>

\* time passes: the bucket of a limiter gains a token, up to the burst
Refill ==
    /\ \E id \in DOMAIN rl.tokens :
          /\ rl.tokens[id] < RateLimitBurst
          /\ rl' = [rl EXCEPT !.tokens[id] = @ + 1]
    /\ UNCHANGED <<clock, file, writes, cache, precomputed, mu,
                   recordsProcessed, ld, sd, rd, installed, arg, mg, cf, ld2,
                   rh, rq, gs>>

\* the cleanup goroutine: time.Sleep(time.Minute) is over; rl.mu.Lock()
CleanupLock ==
    /\ CanLock(rl.mu)
    /\ \E t \in rl.cleanups :
          /\ t.pc = "sleep"
          /\ rl' = [rl EXCEPT
                      !.mu.writer = TRUE,
                      !.cleanups = (@ \ {t}) \cup {[t EXCEPT !.pc = "locked"]}]
    /\ UNCHANGED <<clock, file, writes, cache, precomputed, mu,
                   recordsProcessed, ld, sd, rd, installed, arg, mg, cf, ld2,
                   rh, rq, gs>>

\* delete(rl.limiters, ip); rl.mu.Unlock()
CleanupDelete ==
    /\ \E t \in rl.cleanups :
          /\ t.pc = "locked"
          /\ rl' = [rl EXCEPT
                      !.limiters = Delete(@, t.ip),
                      !.deleted = IF Has(rl.limiters, t.ip)
                                  THEN @ \cup {rl.limiters[t.ip]} ELSE @,
                      !.mu.writer = FALSE,
                      !.cleanups = @ \ {t}]
    /\ UNCHANGED <<clock, file, writes, cache, precomputed, mu,
                   recordsProcessed, ld, sd, rd, installed, arg, mg, cf, ld2,
                   rh, rq, gs>>

(***************************************************************************)
(* The middleware chain of main: Chain, CORS, TrustedProxy, RateLimit, and *)
(* errors.WriteError                                                       *)
(***************************************************************************)
\* the middlewares main passes to Chain, in the order of the call
MainMiddlewares ==
    <<"Recovery", "RequestID", "Logger", "Tracing", "SecurityHeaders",
      "CORS", "TrustedProxy", "RateLimit">>

\* a handler is the sequence of the handlers a request runs through

\* faulty variant: the loop runs from the first middleware to the last
RECURSIVE ChainInnerFirstFrom(_, _, _)
ChainInnerFirstFrom(middlewares, i, h) ==
    IF i > Len(middlewares) THEN h
    ELSE ChainInnerFirstFrom(middlewares, i + 1, <<middlewares[i]>> \o h)

ChainInnerFirst(middlewares, h) == ChainInnerFirstFrom(middlewares, 1, h)

\* for i := len(middlewares) - 1; i >= 0; i-- { h = middlewares[i](h) }
RECURSIVE ChainFrom(_, _, _)
ChainFrom(middlewares, i, h) ==
    IF i < 1 THEN h
    ELSE ChainFrom(middlewares, i - 1, <<middlewares[i]>> \o h)

Chain(middlewares, h) == ChainFrom(middlewares, Len(middlewares), h)

\* handler := middlewareChain(srv)
MainHandler == Chain(MainMiddlewares, <<"srv">>)

\* config.Security.TrustedProxies
TrustedProxies == << <<"p">> >>

\* net.SplitHostPort of an address without brackets: the host before the
\* last colon; "" when there is no colon or the host has one
LastColon(addr) ==
    IF \E i \in DOMAIN addr : addr[i] = ":"
    THEN CHOOSE i \in DOMAIN addr :
            addr[i] = ":" /\ \A j \in DOMAIN addr : addr[j] = ":" => j <= i
    ELSE 0

SplitHostPort(addr) ==
    LET i == LastColon(addr)
        host == SubSeq(addr, 1, i - 1)
    IN  IF i = 0 \/ (\E j \in DOMAIN host : host[j] = ":") THEN <<>> ELSE host

isTrustedProxy(remoteAddr, trusted) ==
    \E i \in DOMAIN trusted : trusted[i] = SplitHostPort(remoteAddr)

getClientIP(r) ==
    IF r.xff # <<>> THEN TrimSpace(Split(r.xff, ",")[1])
    ELSE IF r.xri # <<>> THEN r.xri
    ELSE SplitHostPort(r.remote)

\* errors.go: the HTTP status of an error code
StatusOK == 200
StatusBadRequest == 400
StatusUnauthorized == 401
StatusForbidden == 403
StatusNotFound == 404
StatusTooManyRequests == 429
StatusInternalServerError == 500
StatusServiceUnavailable == 503

\* faulty variant: no case for the rate limit code
getStatusCodeNoRateLimit(code) ==
    CASE code \in {"VALIDATION_ERROR", "BAD_REQUEST"} -> StatusBadRequest
      [] code = "NOT_FOUND" -> StatusNotFound
      [] code = "UNAUTHORIZED" -> StatusUnauthorized
      [] code = "FORBIDDEN" -> StatusForbidden
      [] code = "SERVICE_UNAVAILABLE" -> StatusServiceUnavailable
      [] OTHER -> StatusInternalServerError

getStatusCode(code) ==
    CASE code \in {"VALIDATION_ERROR", "BAD_REQUEST"} -> StatusBadRequest
      [] code = "NOT_FOUND" -> StatusNotFound
      [] code = "UNAUTHORIZED" -> StatusUnauthorized
      [] code = "FORBIDDEN" -> StatusForbidden
      [] code = "RATE_LIMIT_EXCEEDED" -> StatusTooManyRequests
      [] code = "SERVICE_UNAVAILABLE" -> StatusServiceUnavailable
      [] OTHER -> StatusInternalServerError

\* errors.New(code, message)
NewAppError(code) == [Code |-> code, StatusCode |-> getStatusCode(code)]

\* errors.RateLimit(message)
RateLimitError == NewAppError("RATE_LIMIT_EXCEEDED")

\* errors.WriteError on a connection that takes the response: the status of
\* the error, and ErrorResponse{Error: appErr, Success: false} as the body
WriteError(r, appErr) ==
    [r EXCEPT !.status = appErr.StatusCode, !.code = appErr.Code,
              !.success = FALSE, !.pc = "done"]

\* the requests that arrive
Methods == {"GET", "OPTIONS"}
RemoteAddrs == {<<"u", ":", "1">>, <<"u", ":", "2">>, <<"p", ":", "1">>}
ForwardedFors == {<<>>, <<" ", "y", ",", "z">>}
RealIPs == {<<>>, <<"w">>}

\* the server hands a request to the handler
Arrive(c) ==
    /\ rq[c].pc = "idle"
    /\ rl.calls < MaxRequests
    /\ \E m \in Methods, a \in RemoteAddrs, f \in ForwardedFors, x \in RealIPs :
          rq' = [rq EXCEPT ![c] =
                    [RequestIdle EXCEPT !.pc = "chain", !.method = m,
                                        !.remote = a, !.xff = f, !.xri = x,
                                        !.sent = <<f, x>>, !.idx = 1]]
    /\ rl' = [rl EXCEPT !.calls = @ + 1]
    /\ UNCHANGED <<clock, file, writes, cache, precomputed, mu,
                   recordsProcessed, ld, sd, rd, installed, arg, mg, cf, ld2,
                   rh, gs>>

\* the handler at the request's position
Current(c) == MainHandler[rq[c].idx]

\* next.ServeHTTP(w, r)
ServeNext(r) == [r EXCEPT !.idx = @ + 1, !.ran = Append(@, MainHandler[r.idx])]

\* Recovery, RequestID, Logger, Tracing, SecurityHeaders: each calls next
\* with the same remote address and the same request headers
PassThrough(c) ==
    /\ rq[c].pc = "chain"
    /\ Current(c) \in {"Recovery", "RequestID", "Logger", "Tracing",
                       "SecurityHeaders"}
    /\ rq' = [rq EXCEPT ![c] = ServeNext(@)]
    /\ UNCHANGED <<clock, file, writes, cache, precomputed, mu,
                   recordsProcessed, ld, sd, rd, installed, arg, mg, cf, ld2,
                   rh, rl, gs>>

\* CORS: an OPTIONS request is answered with 200, the others go on
CORS(c) ==
    /\ rq[c].pc = "chain"
    /\ Current(c) = "CORS"
    /\ rq' = [rq EXCEPT ![c] =
                IF @.method = "OPTIONS"
                THEN [@ EXCEPT !.status = StatusOK, !.pc = "done",
                               !.ran = Append(@, "CORS")]
                ELSE ServeNext(@)]
    /\ UNCHANGED <<clock, file, writes, cache, precomputed, mu,
                   recordsProcessed, ld, sd, rd, installed, arg, mg, cf, ld2,
                   rh, rl, gs>>

\* TrustedProxy: the forwarding headers of a request that does not come
\* from a trusted proxy are deleted
TrustedProxy(c) ==
    /\ rq[c].pc = "chain"
    /\ Current(c) = "TrustedProxy"
    /\ rq' = [rq EXCEPT ![c] =
                IF ~isTrustedProxy(@.remote, TrustedProxies)
                THEN ServeNext([@ EXCEPT !.xff = <<>>, !.xri = <<>>])
                ELSE ServeNext(@)]
    /\ UNCHANGED <<clock, file, writes, cache, precomputed, mu,
                   recordsProcessed, ld, sd, rd, installed, arg, mg, cf, ld2,
                   rh, rl, gs>>

\* RateLimit: ip := getClientIP(r); limiter.Allow(ip) is called
RateLimit(c) ==
    /\ rq[c].pc = "chain"
    /\ Current(c) = "RateLimit"
    /\ rq' = [rq EXCEPT ![c] = AllowCallOf(c, getClientIP(@), @)]
    /\ UNCHANGED <<clock, file, writes, cache, precomputed, mu,
                   recordsProcessed, ld, sd, rd, installed, arg, mg, cf, ld2,
                   rh, rl, gs>>

\* RateLimit, after Allow: a refused request gets the error response and the
\* handler returns; an allowed one goes on
RateLimitDecide(c) ==
    /\ rq[c].pc = "ret"
    /\ rq[c].idx > 0
    /\ rq' = [rq EXCEPT ![c] =
                IF ~@.allowed
                THEN WriteError([@ EXCEPT !.ran = Append(@, "RateLimit")],
                                RateLimitError)
                ELSE ServeNext([@ EXCEPT !.pc = "chain"])]
    /\ UNCHANGED <<clock, file, writes, cache, precomputed, mu,
                   recordsProcessed, ld, sd, rd, installed, arg, mg, cf, ld2,
                   rh, rl, gs>>

\* the server's own handler answers
Serve(c) ==
    /\ rq[c].pc = "chain"
    /\ Current(c) = "srv"
    /\ rq' = [rq EXCEPT ![c].reached = TRUE, ![c].status = StatusOK,
                        ![c].success = TRUE, ![c].pc = "done",
                        ![c].ran = Append(@, "srv")]
    /\ UNCHANGED <<clock, file, writes, cache, precomputed, mu,
                   recordsProcessed, ld, sd, rd, installed, arg, mg, cf, ld2,
                   rh, rl, gs>>

\* the response is with the client
RequestDone(c) ==
    /\ rq[c].pc = "done"
    /\ rq' = [rq EXCEPT ![c] = RequestIdle]
    /\ UNCHANGED <<clock, file, writes, cache, precomputed, mu,
                   recordsProcessed, ld, sd, rd, installed, arg, mg, cf, ld2,
                   rh, rl, gs>>

(***************************************************************************)
(* GracefulServer: RegisterShutdownHook, ListenAndServe, shutdown          *)
(***************************************************************************)
\* what a registered hook does when called: return nil; return an error;
\* never return; return the context's error when its context is done
HookKinds == {"ok", "fail", "hang", "wait"}

\* gs.mu.Lock(); gs.shutdownFn = append(gs.shutdownFn, fn); gs.mu.Unlock()
RegisterShutdownHook ==
    /\ Len(gs.shutdownFn) < MaxHooks
    /\ \E k \in HookKinds :
          gs' = [gs EXCEPT !.shutdownFn = Append(@, k)]
    /\ UNCHANGED <<clock, file, writes, cache, precomputed, mu,
                   recordsProcessed, ld, sd, rd, installed, arg, mg, cf, ld2,
                   rh, rl, rq>>

\* ListenAndServe: case err := <-serverErrors: the server stopped by itself
ListenFail ==
    /\ gs.pc = "serving"
    /\ gs' = [gs EXCEPT !.pc = "stopped"]
    /\ UNCHANGED <<clock, file, writes, cache, precomputed, mu,
                   recordsProcessed, ld, sd, rd, installed, arg, mg, cf, ld2,
                   rh, rl, rq>>

\* ListenAndServe: case sig := <-shutdown: context.WithTimeout, gs.shutdown(ctx)
Signal ==
    /\ gs.pc = "serving"
    /\ gs' = [gs EXCEPT !.pc = "called", !.ctx = "live",
                        !.atStart = Len(gs.shutdownFn)]
    /\ UNCHANGED <<clock, file, writes, cache, precomputed, mu,
                   recordsProcessed, ld, sd, rd, installed, arg, mg, cf, ld2,
                   rh, rl, rq>>

\* faulty variant: the error channel has room for one error
errChanOfOne(hooks) == 1

\* errChan := make(chan error, len(hooks)+1)
errChanCap(hooks) == Len(hooks) + 1

\* shutdown: the hooks are copied under gs.mu.RLock(); wg and errChan are made
ShutdownCopy ==
    /\ gs.pc = "called"
    /\ gs' = [gs EXCEPT !.hooks = gs.shutdownFn,
                        !.hk = [j \in DOMAIN gs.shutdownFn |-> NoGoroutine],
                        !.errCap = errChanCap(gs.shutdownFn),
                        !.i = 1, !.pc = "spawn"]
    /\ UNCHANGED <<clock, file, writes, cache, precomputed, mu,
                   recordsProcessed, ld, sd, rd, installed, arg, mg, cf, ld2,
                   rh, rl, rq>>

\* for i, hook := range hooks { wg.Add(1); go func(idx, fn) {...}(i, hook) }
ShutdownGoHook ==
    /\ gs.pc = "spawn"
    /\ gs.i <= Len(gs.hooks)
    /\ gs' = [gs EXCEPT !.wg = @ + 1, !.hk[gs.i].pc = "ready", !.i = @ + 1]
    /\ UNCHANGED <<clock, file, writes, cache, precomputed, mu,
                   recordsProcessed, ld, sd, rd, installed, arg, mg, cf, ld2,
                   rh, rl, rq>>

\* wg.Add(1); go func() { ... gs.server.Shutdown(ctx) ... }()
ShutdownGoServer ==
    /\ gs.pc = "spawn"
    /\ gs.i > Len(gs.hooks)
    /\ gs' = [gs EXCEPT !.wg = @ + 1, !.srv.pc = "ready", !.pc = "spawned"]
    /\ UNCHANGED <<clock, file, writes, cache, precomputed, mu,
                   recordsProcessed, ld, sd, rd, installed, arg, mg, cf, ld2,
                   rh, rl, rq>>

\* done := make(chan struct{}); go func() { wg.Wait(); close(done) }()
ShutdownGoWaiter ==
    /\ gs.pc = "spawned"
    /\ gs' = [gs EXCEPT !.waiter = "waiting", !.pc = "select"]
    /\ UNCHANGED <<clock, file, writes, cache, precomputed, mu,
                   recordsProcessed, ld, sd, rd, installed, arg, mg, cf, ld2,
                   rh, rl, rq>>

\* a hook goroutine starts: hookCtx is made from ctx, fn(hookCtx) is called
HookStart(j) ==
    /\ gs.hk[j].pc = "ready"
    /\ gs' = [gs EXCEPT !.hk[j].pc = "running", !.hk[j].invoked = @ + 1,
                        !.hk[j].hookCtx = gs.ctx]
    /\ UNCHANGED <<clock, file, writes, cache, precomputed, mu,
                   recordsProcessed, ld, sd, rd, installed, arg, mg, cf, ld2,
                   rh, rl, rq>>

\* the 10 seconds of hookCtx are over
HookTimeout(j) ==
    /\ gs.hk[j].pc = "running"
    /\ gs.hk[j].hookCtx = "live"
    /\ gs' = [gs EXCEPT !.hk[j].hookCtx = "expired"]
    /\ UNCHANGED <<clock, file, writes, cache, precomputed, mu,
                   recordsProcessed, ld, sd, rd, installed, arg, mg, cf, ld2,
                   rh, rl, rq>>

\* a goroutine of the wait group ends: the deferred wg.Done()
Exited(g) == [g EXCEPT !.pc = "exited"]

\* fn(hookCtx) returns nil: the goroutine ends
HookReturnNil(j) ==
    /\ gs.hk[j].pc = "running"
    /\ gs.hooks[j] = "ok"
    /\ gs' = [gs EXCEPT !.hk[j] = [Exited(@) EXCEPT !.late = gs.ctx = "expired"],
                        !.wg = @ - 1]
    /\ UNCHANGED <<clock, file, writes, cache, precomputed, mu,
                   recordsProcessed, ld, sd, rd, installed, arg, mg, cf, ld2,
                   rh, rl, rq>>

\* fn(hookCtx) returns an error
HookReturnErr(j) ==
    /\ gs.hk[j].pc = "running"
    /\ \/ gs.hooks[j] = "fail"
       \/ gs.hooks[j] = "wait" /\ gs.hk[j].hookCtx = "expired"
    /\ gs' = [gs EXCEPT !.hk[j].pc = "failed", !.hk[j].err = TRUE,
                        !.hk[j].late = gs.ctx = "expired"]
    /\ UNCHANGED <<clock, file, writes, cache, precomputed, mu,
                   recordsProcessed, ld, sd, rd, installed, arg, mg, cf, ld2,
                   rh, rl, rq>>

\* errChan <- fmt.Errorf("shutdown hook %d failed: %w", idx, err)
HookSend(j) ==
    /\ gs.hk[j].pc = "failed"
    /\ Len(gs.errChan) < gs.errCap
    /\ gs' = [gs EXCEPT !.errChan = Append(@, "hook failed"),
                        !.hk[j] = Exited(@), !.wg = @ - 1]
    /\ UNCHANGED <<clock, file, writes, cache, precomputed, mu,
                   recordsProcessed, ld, sd, rd, installed, arg, mg, cf, ld2,
                   rh, rl, rq>>

\* the server goroutine starts: gs.server.Shutdown(ctx) is called
ServerStart ==
    /\ gs.srv.pc = "ready"
    /\ gs' = [gs EXCEPT !.srv.pc = "running", !.srv.invoked = @ + 1]
    /\ UNCHANGED <<clock, file, writes, cache, precomputed, mu,
                   recordsProcessed, ld, sd, rd, installed, arg, mg, cf, ld2,
                   rh, rl, rq>>

\* Shutdown returns nil: the connections are idle and closed
ServerReturnNil ==
    /\ gs.srv.pc = "running"
    /\ gs' = [gs EXCEPT !.srv = [Exited(@) EXCEPT !.late = gs.ctx = "expired"],
                        !.wg = @ - 1]
    /\ UNCHANGED <<clock, file, writes, cache, precomputed, mu,
                   recordsProcessed, ld, sd, rd, installed, arg, mg, cf, ld2,
                   rh, rl, rq>>

\* Shutdown returns ctx.Err(): the context is done and connections are open
ServerReturnErr ==
    /\ gs.srv.pc = "running"
    /\ gs.ctx = "expired"
    /\ gs' = [gs EXCEPT !.srv.pc = "failed", !.srv.err = TRUE,
                        !.srv.late = TRUE]
    /\ UNCHANGED <<clock, file, writes, cache, precomputed, mu,
                   recordsProcessed, ld, sd, rd, installed, arg, mg, cf, ld2,
                   rh, rl, rq>>

\* errChan <- fmt.Errorf("HTTP server shutdown failed: %w", err)
ServerSend ==
    /\ gs.srv.pc = "failed"
    /\ Len(gs.errChan) < gs.errCap
    /\ gs' = [gs EXCEPT !.errChan = Append(@, "server failed"),
                        !.srv = Exited(@), !.wg = @ - 1]
    /\ UNCHANGED <<clock, file, writes, cache, precomputed, mu,
                   recordsProcessed, ld, sd, rd, installed, arg, mg, cf, ld2,
                   rh, rl, rq>>

\* a goroutine parked in the select is made runnable by the first channel
\* that becomes ready, with that case chosen
Wake(g, case) ==
    IF g.pc = "parked" THEN [g EXCEPT !.pc = "woken", !.chosen = case] ELSE g

\* wg.Wait() returns; close(done)
WaiterClose ==
    /\ gs.waiter = "waiting"
    /\ gs.wg = 0
    /\ gs' = Wake([gs EXCEPT !.waiter = "exited", !.done = TRUE], "done")
    /\ UNCHANGED <<clock, file, writes, cache, precomputed, mu,
                   recordsProcessed, ld, sd, rd, installed, arg, mg, cf, ld2,
                   rh, rl, rq>>

\* the shutdown timeout is over: ctx is done, and so is every hookCtx
CtxExpire ==
    /\ gs.ctx = "live"
    /\ gs' = Wake([gs EXCEPT
                     !.ctx = "expired",
                     !.hk = [j \in DOMAIN gs.hk |->
                               IF gs.hk[j].hookCtx = "live"
                               THEN [gs.hk[j] EXCEPT !.hookCtx = "expired"]
                               ELSE gs.hk[j]]], "ctx")
    /\ UNCHANGED <<clock, file, writes, cache, precomputed, mu,
                   recordsProcessed, ld, sd, rd, installed, arg, mg, cf, ld2,
                   rh, rl, rq>>

\* select { case <-done: ... case <-ctx.Done(): ... }: one of the ready
\* cases is chosen; with none ready the goroutine parks
ShutdownSelect ==
    /\ gs.pc = "select"
    /\ \/ /\ gs.done
          /\ gs' = [gs EXCEPT !.pc = "woken", !.chosen = "done"]
       \/ /\ gs.ctx = "expired"
          /\ gs' = [gs EXCEPT !.pc = "woken", !.chosen = "ctx"]
       \/ /\ ~gs.done
          /\ gs.ctx # "expired"
          /\ gs' = [gs EXCEPT !.pc = "parked"]
    /\ UNCHANGED <<clock, file, writes, cache, precomputed, mu,
                   recordsProcessed, ld, sd, rd, installed, arg, mg, cf, ld2,
                   rh, rl, rq>>

\* case <-done: the first error of errChan, or nil; case <-ctx.Done(): ctx.Err()
ShutdownReturn ==
    /\ gs.pc = "woken"
    /\ gs' = [gs EXCEPT
                !.pc = "returned",
                !.result = IF gs.chosen = "ctx" THEN "ctx"
                           ELSE IF gs.errChan # <<>> THEN Head(gs.errChan)
                           ELSE "nil",
                !.errChan = IF gs.chosen = "done" /\ gs.errChan # <<>>
                            THEN Tail(@) ELSE @]
    /\ UNCHANGED <<clock, file, writes, cache, precomputed, mu,
                   recordsProcessed, ld, sd, rd, installed, arg, mg, cf, ld2,
                   rh, rl, rq>>

(***************************************************************************)
(* The caller of an accessor.  CountryRevenue, TopProducts, MonthlySales  *)
(* and TopRegions return the slice held by a.precomputed, or a reslice of *)
(* it: the result shares its array with the installed PrecomputedData.    *)
(***************************************************************************)
\* the zero value of the element type of an accessor's result
ZeroEntry(op) ==
    CASE op = "CountryRevenue" ->
            [Country |-> "", ProductName |-> "", Category |-> "",
             TotalRevenue |-> 0, Transactions |-> 0]
      [] op = "TopProducts" ->
            [ProductName |-> "", Category |-> "", StockQuantity |-> 0,
             Frequency |-> 0]
      [] op = "MonthlySales" -> [Month |-> "", Volume |-> 0]
      [] op = "TopRegions" -> [Region |-> "", Revenue |-> 0, ItemsSold |-> 0]

\* the caller assigns to an element of the slice it was returned, result[i] =
\* T{}, and lets go of it; the one SetData call has returned, so the array
\* written is the one a.precomputed holds
CallerWrite ==
    /\ rd.pc = "done"
    /\ rd.op # "Stats"
    /\ ~rd.result.panic
    /\ sd.calls = 1 /\ sd.pc = "idle"
    /\ \E i \in DOMAIN rd.result.val :
          precomputed' = [precomputed EXCEPT
                            ![rd.op] = [@ EXCEPT ![i] = ZeroEntry(rd.op)]]
    /\ rd' = ReaderIdle
    /\ UNCHANGED <<clock, file, writes, cache, mu, recordsProcessed,
                   ld, sd, installed, arg, mg, cf, ld2,
                   rh, rl, rq, gs>>

(***************************************************************************)
(* The merge of processBatch on two parts of a collection                 *)
(***************************************************************************)
\* the elements of q at the positions in keep, in the order of q
RECURSIVE Part(_, _, _)
Part(q, keep, i) ==
    IF i > Len(q) THEN <<>>
    ELSE (IF i \in keep THEN <<q[i]>> ELSE <<>>) \o Part(q, keep, i + 1)

\* the global maps hold the aggregation of one part of arg, the local maps
\* of processBatch the aggregation of the other part
MergeSplit ==
    /\ mg.pc = "idle"
    /\ \E keep \in SUBSET (DOMAIN arg) :
          LET left == Part(arg, keep, 1)
              right == Part(arg, (DOMAIN arg) \ keep, 1)
          IN  mg' = [pc |-> "split", left |-> left, right |-> right,
                     global |-> aggregateAll(left, EmptyGroups),
                     local |-> aggregateAll(right, EmptyGroups)]
    /\ UNCHANGED <<clock, file, writes, cache, precomputed, mu,
                   recordsProcessed, ld, sd, rd, installed, arg, cf, ld2,
                   rh, rl, rq, gs>>

\* mu.Lock(); the four merges of the local maps into the global ones
MergeParts ==
    /\ mg.pc = "split"
    /\ mg' = [mg EXCEPT !.pc = "merged", !.global = mergeAll(mg.local, @)]
    /\ UNCHANGED <<clock, file, writes, cache, precomputed, mu,
                   recordsProcessed, ld, sd, rd, installed, arg, cf, ld2,
                   rh, rl, rq, gs>>

(***************************************************************************)
(* Cache file names                                                        *)
(***************************************************************************)
cacheVersion == "v1"

cacheDir == ".cache"

\* strings.ReplaceAll(cs, old, new) for one-character old and new
RECURSIVE ReplaceAll(_, _, _)
ReplaceAll(cs, old, new) ==
    IF cs = <<>> THEN <<>>
    ELSE <<IF Head(cs) = old THEN new ELSE Head(cs)>>
         \o ReplaceAll(Tail(cs), old, new)

\* fmt.Sprintf("%s/%s_%s.gob", cacheDir, ReplaceAll(csvPath, "/", "_"),
\* cacheVersion)
getCacheFilename(csvPath) ==
    cacheDir \o "/" \o StrOf(ReplaceAll(csvPath, "/", "_")) \o "_"
             \o cacheVersion \o ".gob"

\* the characters of the source paths of the model
PathChars == {"a", "/", "_"}

\* the source paths: the texts of 1..MaxPath characters
CachePaths == SeqsUpTo(PathChars, MaxPath) \ {<<>>}

\* saveToCache(csvPath): os.Create(getCacheFilename(csvPath))
CacheSave ==
    /\ cf.pc = "idle"
    /\ \E p \in CachePaths :
          cf' = [cf EXCEPT !.pc = "saved", !.owner = p,
                           !.name = getCacheFilename(p)]
    /\ UNCHANGED <<clock, file, writes, cache, precomputed, mu,
                   recordsProcessed, ld, sd, rd, installed, arg, mg, ld2,
                   rh, rl, rq, gs>>

\* loadFromCache(csvPath): os.Open(getCacheFilename(csvPath)) finds the file
\* or does not
CacheLoad ==
    /\ cf.pc = "saved"
    /\ \E q \in CachePaths :
          cf' = [cf EXCEPT !.pc = "loaded", !.asked = q,
                           !.hit = (getCacheFilename(q) = cf.name)]
    /\ UNCHANGED <<clock, file, writes, cache, precomputed, mu,
                   recordsProcessed, ld, sd, rd, installed, arg, mg, ld2,
                   rh, rl, rq, gs>>

(***************************************************************************)
(* Specifications                                                          *)
(***************************************************************************)
\* LoadFromCSV in its environment: the clock, rewrites of the source file,
\* cancellation, read errors, cache failures
Next ==
    \/ Tick
    \/ WriteFile
    \/ Cancel
    \/ LoadCall
    \/ LoadCheckCache
    \/ LoadInstallCache
    \/ LoadOpen
    \/ LoadHeader
    \/ LoadScanLine
    \/ LoadScanEnd
    \/ LoadScanFail
    \/ TaskGo
    \/ \E t \in 1..batchSize : TaskRun(t)
    \/ BatchWait
    \/ LoadPost
    \/ LoadSwap
    \/ LoadSave

Spec == Init /\ [][Next]_vars

\* the engine shared by a LoadFromCSV caller, a SetData caller and a reader
NextShared ==
    \/ Tick
    \/ SetDataLock(MaxSetData)
    \/ SetDataCompute
    \/ SetDataCount
    \/ SetDataTime
    \/ SetDataUnlock
    \/ LoadCall
    \/ LoadCheckCache
    \/ LoadInstallCache
    \/ LoadOpen
    \/ LoadHeader
    \/ LoadScanLine
    \/ LoadScanEnd
    \/ TaskGo
    \/ \E t \in 1..batchSize : TaskRun(t)
    \/ BatchWait
    \/ LoadPost
    \/ LoadSwap
    \/ LoadSave
    \/ ReadCall(SharedLimits)
    \/ ReadStep
    \/ ReadDone

SpecShared == Init /\ [][NextShared]_vars

\* aggregation: SetData on every input up to MaxTx transactions, and the
\* accessors
InitAgg ==
    /\ clock = 1
    /\ file = NoFile
    /\ writes = 0
    /\ cache = NoCache
    /\ precomputed = EmptyData
    /\ mu = [writer |-> FALSE, readers |-> 0]
    /\ recordsProcessed = 0
    /\ ld = LoaderIdle
    /\ sd = [pc |-> "idle", data |-> <<>>, calls |-> 0]
    /\ rd = ReaderIdle
    /\ installed = {EmptyData}
    /\ arg \in AggInputs
    /\ mg = MergeIdle
    /\ cf = CacheIdle
    /\ ld2 = LoaderIdle
    /\ rh = RefreshIdle
    /\ rl = LimiterIdle
    /\ rq = RequestsIdle
    /\ gs = ServerIdle

NextAgg ==
    \/ SetDataLock(MaxAggCalls)
    \/ SetDataCompute
    \/ SetDataCount
    \/ SetDataTime
    \/ SetDataUnlock
    \/ ReadCall(Limits)
    \/ ReadStep
    \/ ReadDone

SpecAgg == InitAgg /\ [][NextAgg]_vars

\* the merge on every split of every collection of up to MaxTx transactions
NextMerge ==
    \/ MergeSplit
    \/ MergeParts

SpecMerge == InitAgg /\ [][NextMerge]_vars

\* the engine at rest, for the cache file names
InitPaths ==
    /\ clock = 1
    /\ file = NoFile
    /\ writes = 0
    /\ cache = NoCache
    /\ precomputed = EmptyData
    /\ mu = [writer |-> FALSE, readers |-> 0]
    /\ recordsProcessed = 0
    /\ ld = LoaderIdle
    /\ sd = [pc |-> "idle", data |-> <<>>, calls |-> 0]
    /\ rd = ReaderIdle
    /\ installed = {EmptyData}
    /\ arg = <<>>
    /\ mg = MergeIdle
    /\ cf = CacheIdle
    /\ ld2 = LoaderIdle
    /\ rh = RefreshIdle
    /\ rl = LimiterIdle
    /\ rq = RequestsIdle
    /\ gs = ServerIdle

NextPaths ==
    \/ CacheSave
    \/ CacheLoad

SpecPaths == InitPaths /\ [][NextPaths]_vars

\* LoadFromCSV, twice, of a file that does not change
InitOrder ==
    /\ clock = 1
    /\ file = [exists |-> TRUE, lines |-> OrderFile, mtime |-> 0]
    /\ writes = 0
    /\ cache = NoCache
    /\ precomputed = EmptyData
    /\ mu = [writer |-> FALSE, readers |-> 0]
    /\ recordsProcessed = 0
    /\ ld = LoaderIdle
    /\ sd = [pc |-> "idle", data |-> <<>>, calls |-> 0]
    /\ rd = ReaderIdle
    /\ installed = {EmptyData}
    /\ arg = <<>>
    /\ mg = MergeIdle
    /\ cf = CacheIdle
    /\ ld2 = LoaderIdle
    /\ rh = RefreshIdle
    /\ rl = LimiterIdle
    /\ rq = RequestsIdle
    /\ gs = ServerIdle

NextOrder ==
    \/ Tick
    \/ LoadCall
    \/ LoadCheckCache
    \/ LoadInstallCache
    \/ LoadOpen
    \/ LoadHeader
    \/ LoadScanLine
    \/ LoadScanEnd
    \/ TaskGo
    \/ \E t \in 1..batchSize : TaskRun(t)
    \/ BatchWait
    \/ LoadPost
    \/ LoadSwap
    \/ LoadSave

SpecOrder == InitOrder /\ [][NextOrder]_vars

\* the worker budget: processBatch on a batch of MaxBatch equal lines, more
\* than maxWorkers, as the scan loop of the source (batchSize 10000) hands
\* it over at the end of a file of MaxBatch rows
WorkerBatch == [i \in 1..MaxBatch |-> GoodA]

InitWorkers ==
    /\ clock = 1
    /\ file = [exists |-> TRUE, lines |-> <<HeaderLine>> \o WorkerBatch,
               mtime |-> 0]
    /\ writes = 0
    /\ cache = NoCache
    /\ precomputed = EmptyData
    /\ mu = [writer |-> FALSE, readers |-> 0]
    /\ recordsProcessed = 0
    /\ ld = [LoaderIdle EXCEPT !.pc = "batch", !.calls = 1,
                               !.lines = file.lines,
                               !.idx = Len(file.lines) + 1,
                               !.batch = WorkerBatch, !.scanDone = TRUE,
                               !.streamed = TRUE, !.start = file]
    /\ sd = [pc |-> "idle", data |-> <<>>, calls |-> 0]
    /\ rd = ReaderIdle
    /\ installed = {EmptyData}
    /\ arg = <<>>
    /\ mg = MergeIdle
    /\ cf = CacheIdle
    /\ ld2 = LoaderIdle
    /\ rh = RefreshIdle
    /\ rl = LimiterIdle
    /\ rq = RequestsIdle
    /\ gs = ServerIdle

NextWorkers ==
    \/ Cancel
    \/ TaskGo
    \/ \E t \in 1..MaxBatch : TaskRun(t)
    \/ BatchWait
    \/ LoadPost
    \/ LoadSwap
    \/ LoadSave

SpecWorkers == InitWorkers /\ [][NextWorkers]_vars

\* LoadFromCSV on a file laid out as the README documents, or as the
\* engine's test lays it out
InitReadme ==
    /\ clock = 1
    /\ file \in {[exists |-> TRUE, lines |-> c, mtime |-> 0] :
                    c \in {ReadmeFile, TestFile}}
    /\ writes = 0
    /\ cache = NoCache
    /\ precomputed = EmptyData
    /\ mu = [writer |-> FALSE, readers |-> 0]
    /\ recordsProcessed = 0
    /\ ld = LoaderIdle
    /\ sd = [pc |-> "idle", data |-> <<>>, calls |-> 0]
    /\ rd = ReaderIdle
    /\ installed = {EmptyData}
    /\ arg = <<>>
    /\ mg = MergeIdle
    /\ cf = CacheIdle
    /\ ld2 = LoaderIdle
    /\ rh = RefreshIdle
    /\ rl = LimiterIdle
    /\ rq = RequestsIdle
    /\ gs = ServerIdle

SpecReadme == InitReadme /\ [][NextOrder]_vars

\* the accessors, with every limit, beside LoadFromCSV calls that fail or
\* succeed; no SetData
NextLoads ==
    \/ Tick
    \/ Cancel
    \/ LoadCall
    \/ LoadCheckCache
    \/ LoadInstallCache
    \/ LoadOpen
    \/ LoadHeader
    \/ LoadScanLine
    \/ LoadScanEnd
    \/ LoadScanFail
    \/ TaskGo
    \/ \E t \in 1..batchSize : TaskRun(t)
    \/ BatchWait
    \/ LoadPost
    \/ LoadSwap
    \/ LoadSave
    \/ ReadCall(Limits)
    \/ ReadStep
    \/ ReadDone

SpecLoads == Init /\ [][NextLoads]_vars

\* two concurrent LoadFromCSV calls of the same file, each made once, and a
\* SetData call with other data
InitTwo == Init /\ arg # <<>>

LoadCallOnce == ld.calls = 0 /\ LoadCall

NextTwo ==
    \/ Tick
    \/ Switch
    \/ SetDataLock(MaxSetData)
    \/ SetDataCompute
    \/ SetDataCount
    \/ SetDataTime
    \/ SetDataUnlock
    \/ LoadCallOnce
    \/ LoadCheckCache
    \/ LoadInstallCache
    \/ LoadOpen
    \/ LoadHeader
    \/ LoadScanLine
    \/ LoadScanEnd
    \/ TaskGo
    \/ \E t \in 1..batchSize : TaskRun(t)
    \/ BatchWait
    \/ LoadPost
    \/ LoadSwap
    \/ LoadSave

SpecTwo == InitTwo /\ [][NextTwo]_vars

\* the rate limiter called from two goroutines, its cleanup goroutines, time
InitLimiter ==
    /\ clock = 1
    /\ file = NoFile
    /\ writes = 0
    /\ cache = NoCache
    /\ precomputed = EmptyData
    /\ mu = [writer |-> FALSE, readers |-> 0]
    /\ recordsProcessed = 0
    /\ ld = LoaderIdle
    /\ sd = [pc |-> "idle", data |-> <<>>, calls |-> 0]
    /\ rd = ReaderIdle
    /\ installed = {EmptyData}
    /\ arg = <<>>
    /\ mg = MergeIdle
    /\ cf = CacheIdle
    /\ ld2 = LoaderIdle
    /\ rh = RefreshIdle
    /\ rl \in {LimiterNew(e) : e \in BOOLEAN}
    /\ rq = RequestsIdle
    /\ gs = ServerIdle

NextLimiter ==
    \/ \E c \in Clients, ip \in AllowIPs : AllowCall(c, ip)
    \/ \E c \in Clients : GetRLock(c)
    \/ \E c \in Clients : GetLookup(c)
    \/ \E c \in Clients : GetLock(c)
    \/ \E c \in Clients : GetCreate(c)
    \/ \E c \in Clients : GetUnlock(c)
    \/ \E c \in Clients : LimiterAllow(c)
    \/ \E c \in Clients : AllowReturn(c)
    \/ Refill
    \/ CleanupLock
    \/ CleanupDelete

SpecLimiter == InitLimiter /\ [][NextLimiter]_vars

\* requests through the handler main builds, one at a time
NextChain ==
    \/ Arrive(1)
    \/ PassThrough(1)
    \/ CORS(1)
    \/ TrustedProxy(1)
    \/ RateLimit(1)
    \/ GetRLock(1)
    \/ GetLookup(1)
    \/ GetLock(1)
    \/ GetCreate(1)
    \/ GetUnlock(1)
    \/ LimiterAllow(1)
    \/ RateLimitDecide(1)
    \/ Serve(1)
    \/ RequestDone(1)
    \/ Refill
    \/ CleanupLock
    \/ CleanupDelete

SpecChain == InitLimiter /\ [][NextChain]_vars

\* the graceful server: hooks are registered, a signal starts shutdown
ShutdownStep ==
    \/ ShutdownCopy
    \/ ShutdownGoHook
    \/ ShutdownGoServer
    \/ ShutdownGoWaiter
    \/ ShutdownSelect
    \/ ShutdownReturn

NextShutdown ==
    \/ RegisterShutdownHook
    \/ ListenFail
    \/ Signal
    \/ ShutdownStep
    \/ \E j \in DOMAIN gs.hk : HookStart(j)
    \/ \E j \in DOMAIN gs.hk : HookTimeout(j)
    \/ \E j \in DOMAIN gs.hk : HookReturnNil(j)
    \/ \E j \in DOMAIN gs.hk : HookReturnErr(j)
    \/ \E j \in DOMAIN gs.hk : HookSend(j)
    \/ ServerStart
    \/ ServerReturnNil
    \/ ServerReturnErr
    \/ ServerSend
    \/ WaiterClose
    \/ CtxExpire

InitShutdown == InitLimiter /\ rl = LimiterIdle

SpecShutdown == InitShutdown /\ [][NextShutdown]_vars

\* the goroutine in shutdown is scheduled again and again, and the timer of
\* the shutdown context fires
SpecShutdownFair ==
    /\ SpecShutdown
    /\ WF_vars(ShutdownStep)
    /\ WF_vars(CtxExpire)

\* HandleRefreshAll, while SetData and LoadFromCSV install snapshots
NextRefresh ==
    \/ SetDataLock(MaxSetData)
    \/ SetDataCompute
    \/ SetDataCount
    \/ SetDataTime
    \/ SetDataUnlock
    \/ LoadCall
    \/ LoadCheckCache
    \/ LoadInstallCache
    \/ LoadOpen
    \/ LoadHeader
    \/ LoadScanLine
    \/ LoadScanEnd
    \/ TaskGo
    \/ \E t \in 1..batchSize : TaskRun(t)
    \/ BatchWait
    \/ LoadPost
    \/ LoadSwap
    \/ LoadSave
    \/ RefreshCall
    \/ RefreshCountry
    \/ RefreshProducts
    \/ RefreshMonthly
    \/ RefreshRegions
    \/ RefreshSignals
    \/ RefreshReturn

SpecRefresh == Init /\ [][NextRefresh]_vars

\* the accessors called with limits of either sign, around one SetData call
NextLimits ==
    \/ SetDataLock(MaxSetData)
    \/ SetDataCompute
    \/ SetDataCount
    \/ SetDataTime
    \/ SetDataUnlock
    \/ ReadCall(SignedLimits)
    \/ ReadStep
    \/ ReadDone

SpecLimits == InitAgg /\ [][NextLimits]_vars

\* the accessors and their caller, around one SetData call
NextCaller ==
    \/ SetDataLock(MaxSetData)
    \/ SetDataCompute
    \/ SetDataCount
    \/ SetDataTime
    \/ SetDataUnlock
    \/ ReadCall(Limits)
    \/ ReadStep
    \/ ReadDone
    \/ CallerWrite

SpecCaller == InitAgg /\ [][NextCaller]_vars

(***************************************************************************)
(* Properties                                                              *)
(***************************************************************************)
Min(a, b) == IF a < b THEN a ELSE b

Range(q) == {q[i] : i \in DOMAIN q}

\* the first n elements of q, all of q when n exceeds its length
Prefix(q, n) == SubSeq(q, 1, Min(n, Len(q)))

\* what Stats reports of snapshot s
StatsOf(s) ==
    <<s.RecordCount, s.LastModified, Len(s.CountryRevenue),
      Len(s.TopProducts), Len(s.MonthlySales), Len(s.TopRegions)>>

\* what an accessor returns when it reads snapshot s alone
ViewOf(op, n, s) ==
    CASE op = "CountryRevenue" -> s.CountryRevenue
      [] op = "TopProducts" -> Prefix(s.TopProducts, n)
      [] op = "MonthlySales" -> s.MonthlySales
      [] op = "TopRegions" -> Prefix(s.TopRegions, n)
      [] op = "Stats" -> StatsOf(s)

\* C1: under any interleaving of LoadFromCSV, SetData and the accessors,
\* while an accessor holds the read lock the PrecomputedData it reads is a
\* published snapshot (never one being built or replaced), and what the
\* accessor returns, all six fields of Stats included, is the view of one
\* single published snapshot.
C1_AccessorsSeeOneSnapshot ==
    /\ rd.pc = "locked" => precomputed \in installed /\ precomputed = rd.snap
    /\ rd.pc = "done" =>
          /\ ~rd.result.panic
          /\ \E s \in installed : rd.result.val = ViewOf(rd.op, rd.limit, s)

\* Stats has returned a loaded snapshot's figures while SetData, holding the
\* write lock, has already replaced the PrecomputedData
C1_Witness ==
    /\ rd.pc = "done"
    /\ rd.op = "Stats"
    /\ rd.result.val[1] = 2
    /\ sd.pc = "computed"
    /\ precomputed \notin installed
    /\ ld.pc = "hit"

Errors ==
    {"open file", "empty file", "ctx", "scan error", "no valid records"}

\* C2: whenever LoadFromCSV has returned an error (the file cannot be
\* opened, no line, header only, no valid row, read error, cancellation), the
\* call has written nothing to the read model: the snapshot is the one that
\* was installed when the call was made, the empty one on a first load.
C2_ErrorLeavesSnapshot ==
    (ld.pc = "idle" /\ ld.result \in Errors) =>
        /\ ~ld.wrote
        /\ precomputed = ld.pre
        /\ (ld.calls = 1 => precomputed = EmptyData)

\* a second load has failed on a file without valid rows and the snapshot of
\* the first load is still installed
C2_Witness ==
    /\ ld.pc = "idle"
    /\ ld.result = "no valid records"
    /\ ld.calls = 2
    /\ precomputed.RecordCount = 2
    /\ Len(precomputed.TopRegions) = 2

\* the data rows of a file that parse
ValidRows(lines) == {i \in 2..Len(lines) : ParseLine(lines[i]).ok}

RECURSIVE ValidTxs(_)
ValidTxs(lines) ==
    IF lines = <<>> THEN <<>>
    ELSE LET r == ParseLine(Head(lines))
         IN  (IF r.ok THEN <<r.val>> ELSE <<>>) \o ValidTxs(Tail(lines))

RECURSIVE SumOf(_)
SumOf(q) == IF q = <<>> THEN 0 ELSE Head(q) + SumOf(Tail(q))

C5_TopNIsPrefix ==
    (rd.pc = "done" /\ rd.op \in {"TopProducts", "TopRegions"}) =>
        LET rollup == IF rd.op = "TopProducts" THEN rd.snap.TopProducts
                      ELSE rd.snap.TopRegions
            got == rd.result.val
        IN  /\ ~rd.result.panic
            /\ Len(got) = Min(rd.limit, Len(rollup))
            /\ \A i \in 1..Len(got) : got[i] = rollup[i]

\* TopProducts(3) has returned the whole rollup of two products
C5_Witness ==
    /\ rd.pc = "done"
    /\ rd.op = "TopProducts"
    /\ rd.limit = 3
    /\ Len(rd.snap.TopProducts) = 2
    /\ Len(rd.result.val) = 2

NonIncreasing(q) == \A i \in 1..(Len(q) - 1) : q[i] >= q[i + 1]

SortedData(d) ==
    /\ NonIncreasing([i \in DOMAIN d.CountryRevenue |->
                         d.CountryRevenue[i].TotalRevenue])
    /\ NonIncreasing([i \in DOMAIN d.TopProducts |-> d.TopProducts[i].Frequency])
    /\ NonIncreasing([i \in DOMAIN d.MonthlySales |-> d.MonthlySales[i].Volume])
    /\ NonIncreasing([i \in DOMAIN d.TopRegions |-> d.TopRegions[i].Revenue])

Aggregated == sd.calls = 1 /\ sd.pc = "idle"

\* the sum of f[i] over the indices i in I
RECURSIVE SumOver(_, _)
SumOver(f, I) ==
    IF I = {} THEN 0
    ELSE LET i == CHOOSE x \in I : TRUE
         IN  f[i] + SumOver(f, I \ {i})

TotalPrices(data) == [i \in DOMAIN data |-> data[i].TotalPrice]

Quantities(data) == [i \in DOMAIN data |-> data[i].Quantity]

TripleOf(tx) == <<tx.Country, tx.ProductName, tx.Category>>

\* C7: after aggregating any collection of valid transactions, CountryRevenue
\* has exactly one entry per (country, product name, category) triple of the
\* input, with TotalRevenue the sum of TotalPrice and Transactions the number
\* of the input transactions of that triple.
C7_OneEntryPerTriple ==
    Aggregated =>
        LET cr == precomputed.CountryRevenue
            triples == {TripleOf(arg[i]) : i \in DOMAIN arg}
        IN  /\ Len(cr) = Cardinality(triples)
            /\ \A t \in triples :
                  LET rows == {i \in DOMAIN arg : TripleOf(arg[i]) = t}
                  IN  \E i \in DOMAIN cr :
                         /\ <<cr[i].Country, cr[i].ProductName,
                              cr[i].Category>> = t
                         /\ cr[i].TotalRevenue = SumOver(TotalPrices(arg), rows)
                         /\ cr[i].Transactions = Cardinality(rows)

\* the calendar month of a date of the inputs, written YYYY-MM
MonthText(date) ==
    CASE date.year = 2023 /\ date.month = 1 -> "2023-01"
      [] date.year = 2023 /\ date.month = 2 -> "2023-02"

\* C8: after aggregating any collection of valid transactions, MonthlySales
\* has exactly one entry per calendar month of the input, named YYYY-MM,
\* whose Volume is the sum of TotalPrice over the transactions of that month.
C8_OneEntryPerMonth ==
    Aggregated =>
        LET ms == precomputed.MonthlySales
            months == {MonthText(arg[i].Date) : i \in DOMAIN arg}
        IN  /\ Len(ms) = Cardinality(months)
            /\ \A m \in months :
                  LET rows == {i \in DOMAIN arg : MonthText(arg[i].Date) = m}
                  IN  \E i \in DOMAIN ms :
                         /\ ms[i].Month = m
                         /\ ms[i].Volume = SumOver(TotalPrices(arg), rows)

\* two transactions of January on different days and one of February have
\* been aggregated into two months
C8_Witness ==
    /\ Aggregated
    /\ arg = <<TxP, TxR, TxQ>>
    /\ Len(precomputed.MonthlySales) = 2
    /\ precomputed.MonthlySales[1].Month = "2023-01"
    /\ precomputed.MonthlySales[1].Volume = 350

\* C9: after aggregating any collection of valid transactions, TopRegions
\* has exactly one entry per region of the input, whose Revenue is the sum of
\* TotalPrice and whose ItemsSold is the sum of Quantity over the
\* transactions of that region.
C9_OneEntryPerRegion ==
    Aggregated =>
        LET tr == precomputed.TopRegions
            regions == {arg[i].Region : i \in DOMAIN arg}
        IN  /\ Len(tr) = Cardinality(regions)
            /\ \A r \in regions :
                  LET rows == {i \in DOMAIN arg : arg[i].Region = r}
                  IN  \E i \in DOMAIN tr :
                         /\ tr[i].Region = r
                         /\ tr[i].Revenue = SumOver(TotalPrices(arg), rows)
                         /\ tr[i].ItemsSold = SumOver(Quantities(arg), rows)

\* region W sold 1 + 2 items in two transactions, region E 3 items in one
C9_Witness ==
    /\ Aggregated
    /\ arg = <<TxP, TxQ, TxR>>
    /\ Len(precomputed.TopRegions) = 2
    /\ \E i \in DOMAIN precomputed.TopRegions :
          /\ precomputed.TopRegions[i].Region = "W"
          /\ precomputed.TopRegions[i].Revenue = 350
          /\ precomputed.TopRegions[i].ItemsSold = 3

\* C10: after aggregating any collection of valid transactions, TopProducts
\* has exactly one entry per product name of the input, whose Frequency is
\* the number of input transactions of that name, whatever their quantities
\* and stocks.
C10_OneEntryPerProduct ==
    Aggregated =>
        LET tp == precomputed.TopProducts
            names == {arg[i].ProductName : i \in DOMAIN arg}
        IN  /\ Len(tp) = Cardinality(names)
            /\ \A n \in names :
                  LET rows == {i \in DOMAIN arg : arg[i].ProductName = n}
                  IN  \E i \in DOMAIN tp :
                         /\ tp[i].ProductName = n
                         /\ tp[i].Frequency = Cardinality(rows)

\* product c occurs twice, with quantities 3 and 1 and stocks 9 and 2, and
\* has frequency 2
C10_Witness ==
    /\ Aggregated
    /\ arg = <<TxR, TxS, TxQ>>
    /\ Len(precomputed.TopProducts) = 2
    /\ precomputed.TopProducts[1].ProductName = "c"
    /\ precomputed.TopProducts[1].Frequency = 2

\* the smallest and the largest element of a non-empty set of indices
First(I) == CHOOSE i \in I : \A j \in I : i <= j

Last(I) == CHOOSE i \in I : \A j \in I : j <= i

\* C11: after aggregating a collection of transactions, the TopProducts entry
\* of every product name carries the category of the first transaction of
\* that name and the stock of the last transaction of that name.
C11_CategoryFirstStockLast ==
    Aggregated =>
        \A n \in {arg[i].ProductName : i \in DOMAIN arg} :
            LET rows == {i \in DOMAIN arg : arg[i].ProductName = n}
            IN  \A i \in DOMAIN precomputed.TopProducts :
                    precomputed.TopProducts[i].ProductName = n =>
                        /\ precomputed.TopProducts[i].Category
                              = arg[First(rows)].Category
                        /\ precomputed.TopProducts[i].StockQuantity
                              = arg[Last(rows)].Stock

\* the four rollups of a snapshot, in their order
RollupsOf(d) == <<d.CountryRevenue, d.TopProducts, d.MonthlySales, d.TopRegions>>

\* C12: two SetData calls with the same input sequence produce the same
\* four rollups: same entries, same values, same order, entries of equal
\* metric included.
C12_SetDataIsDeterministic ==
    \A d1, d2 \in installed \ {EmptyData} : RollupsOf(d1) = RollupsOf(d2)

\* the additive fields of the four maps, key by key
Sums(g) ==
    [country |-> [k \in DOMAIN g.country |->
                     <<g.country[k].TotalRevenue, g.country[k].Transactions>>],
     product |-> [k \in DOMAIN g.product |-> g.product[k].Frequency],
     monthly |-> g.monthly,
     region |-> [k \in DOMAIN g.region |->
                    <<g.region[k].Revenue, g.region[k].ItemsSold>>]]

EntriesOf(d) ==
    <<Range(d.CountryRevenue), Range(d.TopProducts), Range(d.MonthlySales),
      Range(d.TopRegions)>>

\* C14: for a fixed file content, every snapshot LoadFromCSV installs has
\* the same entries with the same fields in its four rollups, in whatever
\* order the parse tasks of a batch deliver their results.
C14_TaskOrderIsInvisible ==
    \A d1, d2 \in installed \ {EmptyData} : EntriesOf(d1) = EntriesOf(d2)

\* the step of LoadFromCSV that decides to answer from the cache
TakesCache == ld.pc = "called" /\ ld'.pc = "hit"

\* the cache file decodes and the source file is newer than the snapshot in it
SourceIsNewer ==
    /\ cache.kind = "gob"
    /\ file.exists
    /\ file.mtime > GobDecode(cache.bytes).LastModified

\* C15: LoadFromCSV decides for the cached snapshot only when the source
\* file's modification time is not later than the cached LastModified, and
\* what it then installs is that snapshot; when the modification time is
\* later, the call goes on to read the file and installs nothing from the
\* cache.
C15_CacheOnlyIfNotStale ==
    /\ [][TakesCache =>
              /\ cache.kind = "gob"
              /\ file.exists
              /\ file.mtime <= GobDecode(cache.bytes).LastModified
              /\ ld'.cached = GobDecode(cache.bytes)]_vars
    /\ [][(ld.pc = "called" /\ ld'.pc # "called" /\ SourceIsNewer) =>
              ld'.pc = "open" /\ precomputed' = precomputed]_vars
    /\ [][(ld.streamed /\ precomputed' # precomputed) =>
              ld.pc = "swap" /\ precomputed' = ld.newData]_vars

\* a second call has found a cache file older than the rewritten source
\* file and has opened the source file
C15_Witness ==
    /\ ld.calls = 2
    /\ ld.pc = "header"
    /\ cache.kind = "gob"
    /\ ld.start = file
    /\ file.mtime > GobDecode(cache.bytes).LastModified

\* the step of LoadFromCSV after its cache check
ChecksCache == ld.pc = "called" /\ ld'.pc # "called"

\* the step of LoadFromCSV that ends with saveToCache
SavesCache == ld.pc = "save" /\ ld'.pc # "save"

\* C16: a cache file that is missing, unreadable or undecodable sends
\* LoadFromCSV to the source file exactly as no cache does, writing nothing;
\* whatever saveToCache does to the cache file (written, left as it was,
\* left undecodable), LoadFromCSV returns nil with the snapshot it computed
\* installed; and a load from the source file returns and installs what the
\* file alone determines.
C16_CacheIsNoDependency ==
    /\ [][(ChecksCache /\ cache.kind # "gob") =>
              /\ ld' = [ld EXCEPT !.pc = "open"]
              /\ precomputed' = precomputed
              /\ cache' = cache]_vars
    /\ [][SavesCache =>
              /\ ld'.pc = "idle"
              /\ ld'.result = "nil"
              /\ precomputed' = precomputed
              /\ precomputed = ld.newData]_vars
    /\ [](ld.pc = "idle" /\ ld.streamed /\ ld.result = "nil" =>
              /\ precomputed = ld.newData
              /\ precomputed.RecordCount = Cardinality(ValidRows(ld.lines)))

\* the first load left an undecodable cache file; the second load of the
\* unchanged file has computed the snapshot again, failed to save it again and
\* returned nil
C16_Witness ==
    /\ ld.pc = "idle"
    /\ ld.calls = 2
    /\ ld.streamed
    /\ ld.result = "nil"
    /\ ld.start.mtime = 0
    /\ ld.start = file
    /\ cache = CorruptCache
    /\ precomputed.RecordCount = 2

\* the step of LoadFromCSV that returns after installing from the cache
InstallsCache == ld.pc = "hit" /\ ld'.pc # "hit"

C18_OneCacheFilePerPath ==
    (cf.pc = "loaded" /\ cf.hit) => cf.asked = cf.owner

\* a step of the LoadFromCSV call itself
LoadStep == ld' # ld /\ ld'.ctx = ld.ctx

\* C19: when the scan loop, having read a line, or a parse task finds the
\* context cancelled, LoadFromCSV returns the context's error, which is none
\* of the data errors; a call that returns it has read the file, has never
\* written the snapshot, and the snapshot installed when it was called has
\* stayed in place all along, whatever had been aggregated.
C19_CancellationKeepsSnapshot ==
    /\ [][(LoadStep /\ ld.pc = "scan" /\ ld.ctx = "cancelled"
                    /\ ~ld'.scanDone) =>
              ld'.pc = "idle" /\ ld'.result = "ctx"]_vars
    /\ [][(LoadStep /\ ld.pc = "batch" /\ ld.taskErr /\ ld'.pc # "batch") =>
              ld'.pc = "idle" /\ ld'.result = "ctx"]_vars
    /\ [](ld.taskErr => ld.ctx = "cancelled")
    /\ [](ld.pc \in {"header", "scan", "batch", "post"} =>
              ~ld.wrote /\ precomputed = ld.pre)
    /\ [](ld.result = "ctx" =>
              /\ ld.pc = "idle" /\ ld.ctx = "cancelled" /\ ld.streamed
              /\ ~ld.wrote
              /\ precomputed = ld.pre
              /\ ld.result \notin {"empty file", "no valid records",
                                   "scan error", "open file"})

\* a second load, with one batch aggregated, has had a parse task of its
\* second batch find the context cancelled; the first load's snapshot is in
\* place
C19_Witness ==
    /\ ld.calls = 2
    /\ ld.pc = "batch"
    /\ ld.taskErr
    /\ ld.groups # EmptyGroups
    /\ precomputed.RecordCount = 2
    /\ precomputed = ld.pre

\* C20: the write lock of the read model is held only to assign a finished
\* snapshot: the aggregation and sorting of SetData's computeAnalytics never
\* run with the write lock held.
C20_WriteLockOnlyForSwap == [][mu.writer => ~SetDataCompute]_vars

\* C21: an installed snapshot never changes: whenever no writer holds the
\* lock the PrecomputedData of the engine is one of the snapshots as they
\* were published, and what CountryRevenue, TopProducts, MonthlySales or
\* TopRegions returns is the view of a snapshot as it was published,
\* whatever callers did with earlier results.
C21_SnapshotIsImmutable ==
    /\ ~mu.writer => precomputed \in installed
    /\ (rd.pc = "done" /\ rd.op # "Stats" /\ ~rd.result.panic) =>
          \E s \in installed : rd.result.val = ViewOf(rd.op, rd.limit, s)

\* C22: at every moment of a batch at most maxWorkers parse tasks are
\* running, however many lines the batch has, and a task is only started
\* while fewer than maxWorkers are running: with maxWorkers running, the next
\* one starts after one of them has finished.
C22_AtMostMaxWorkersTasks ==
    /\ [](Cardinality(ld.running) <= maxWorkers)
    /\ [][ld'.launched > ld.launched =>
             /\ Cardinality(ld.running) < maxWorkers
             /\ ld'.launched = ld.launched + 1
             /\ ld'.running = ld.running \cup {ld'.launched}]_vars

\* the last task of a batch of more than maxWorkers lines has been started,
\* after one of the first maxWorkers finished, and maxWorkers are running
C22_Witness ==
    /\ ld.pc = "batch"
    /\ Len(ld.batch) > maxWorkers
    /\ ld.launched = Len(ld.batch)
    /\ Cardinality(ld.running) = maxWorkers
    /\ Len(ld.txChan) = Len(ld.batch) - maxWorkers

\* C23: a LoadFromCSV call with a live context that streams the file laid
\* out as the README documents returns nil and leaves a snapshot with the
\* sample row counted.
C23_ReadmeFileLoads ==
    (/\ ld.pc = "idle" /\ ld.calls > 0 /\ ld.streamed /\ ld.ctx = "live"
     /\ ld.start.lines = ReadmeFile) =>
        /\ ParseLine(ReadmeRow).ok
        /\ ld.result = "nil"
        /\ precomputed.RecordCount = 1

\* no SetData call was made and no LoadFromCSV call has installed a snapshot
NoSuccessYet == sd.calls = 0 /\ installed = {EmptyData}

\* C24: as long as no SetData and no LoadFromCSV has succeeded, however many
\* loads have failed, the engine's snapshot has record count 0 and four
\* empty rollups, and every accessor call returns without failing: a
\* collection of length 0 for every limit >= 0, and from Stats a record
\* count of 0 and four sizes of 0.
C24_EmptyUntilFirstSuccess ==
    NoSuccessYet =>
        /\ precomputed.RecordCount = 0
        /\ Len(precomputed.CountryRevenue) = 0
        /\ Len(precomputed.TopProducts) = 0
        /\ Len(precomputed.MonthlySales) = 0
        /\ Len(precomputed.TopRegions) = 0
        /\ rd.pc = "done" =>
              /\ ~rd.result.panic
              /\ rd.op # "Stats" => Len(rd.result.val) = 0
              /\ rd.op = "Stats" =>
                    /\ rd.result.val[1] = 0
                    /\ \A i \in 3..6 : rd.result.val[i] = 0

\* two loads have failed and TopProducts(3) has returned an empty collection
C24_Witness ==
    /\ NoSuccessYet
    /\ ld.calls = 2
    /\ ld.pc = "idle"
    /\ ld.result \in Errors
    /\ rd.pc = "done"
    /\ rd.op = "TopProducts"
    /\ rd.limit = 3
    /\ rd.result = Value(<<>>)

\* the numbers the engine keeps and reports: recordsProcessed and the figures
\* of Stats other than the time
Counters ==
    {recordsProcessed, precomputed.RecordCount,
     Len(precomputed.CountryRevenue), Len(precomputed.TopProducts),
     Len(precomputed.MonthlySales), Len(precomputed.TopRegions)}

\* C25: after a load that read the file and had to drop rows, the number of
\* rows dropped, or the number of rows read, is among the numbers the engine
\* keeps and reports.
C25_DiscardsAreCounted ==
    (ld.pc = "idle" /\ ld.result = "nil" /\ ld.streamed) =>
        LET rows == Len(ld.lines) - 1
            dropped == rows - Cardinality(ValidRows(ld.lines))
        IN  dropped > 0 => (dropped \in Counters \/ rows \in Counters)

\* the tasks of the current batch that have finished
Finished(l) == (1..l.launched) \ l.running

\* ch holds one result per task in T, each the parse of that task's line
OneResultPerTask(ch, T, batch) ==
    \E p \in [DOMAIN ch -> T] :
        /\ \A i, j \in DOMAIN ch : p[i] = p[j] => i = j
        /\ \A t \in T : \E i \in DOMAIN ch : p[i] = t
        /\ \A i \in DOMAIN ch : ch[i] = processedTx(batch[p[i]])

\* C26: while LoadFromCSV streams, the batch is the run of lines read since
\* the last batch was merged, never more than batchSize of them; every data
\* line before that run has been parsed and counted once; within a batch each
\* line gets one task and each finished task has sent one result; the scan
\* loop reads no line while a batch is processed and goes on only when all
\* the batch's tasks have finished, with the buffer emptied; the lines left
\* at the end of the file are processed as a last batch.
C26_EachLineInOneBatch ==
    /\ [](ld.pc \in {"scan", "batch", "post"} =>
            LET before == ld.idx - 1 - Len(ld.batch)
            IN  /\ before >= 1
                /\ Len(ld.batch) <= batchSize
                /\ ld.batch = SubSeq(ld.lines, before + 1, ld.idx - 1)
                /\ ld.recordCount =
                      Cardinality(ValidRows(SubSeq(ld.lines, 1, before)))
                /\ ld.pc = "scan" => Len(ld.batch) < batchSize /\ ~ld.scanDone
                /\ ld.pc = "post" =>
                      /\ ld.batch = <<>>
                      /\ ld.scanDone
                      /\ ~ld.scanErr => before = Len(ld.lines)
                /\ ld.pc = "batch" =>
                      /\ ld.batch # <<>>
                      /\ Len(ld.batch) = batchSize \/ ld.scanDone
                      /\ ld.launched <= Len(ld.batch)
                      /\ ld.running \subseteq 1..ld.launched
                      /\ Len(ld.txChan) <= Cardinality(Finished(ld))
                      /\ ~ld.taskErr =>
                            OneResultPerTask(ld.txChan, Finished(ld), ld.batch))
    /\ [][(ld.pc = "batch" /\ ld'.pc = "batch") =>
             ld'.idx = ld.idx /\ ld'.batch = ld.batch]_vars
    /\ [][(ld.pc = "batch" /\ ld'.pc \in {"scan", "post"}) =>
             /\ ld.launched = Len(ld.batch)
             /\ ld.running = {}
             /\ ld'.batch = <<>>
             /\ ld'.idx = ld.idx]_vars

\* the last line of a three-row file, left over after a full batch was
\* merged, is alone in the last batch and its task has sent its result
C26_Witness ==
    /\ ld.pc = "batch"
    /\ ld.scanDone /\ ~ld.scanErr
    /\ Len(ld.lines) = 4
    /\ ld.batch = <<ld.lines[4]>>
    /\ ld.recordCount = 1
    /\ ld.running = {}
    /\ Len(ld.txChan) = 1

\* C27: a LoadFromCSV call made with a context that is already cancelled
\* returns the context's error and installs nothing, whatever the cache
\* holds (the context of a call is not cancelled later in this
\* specification, so a cancelled context was cancelled at the call).
C27_CancelledCallFails ==
    (ld.pc = "idle" /\ ld.calls > 0 /\ ld.ctx = "cancelled") =>
        /\ ld.result = "ctx"
        /\ ~ld.wrote
        /\ precomputed = ld.pre

\* C28: whatever SetData does meanwhile, the cache file a LoadFromCSV call
\* writes after computing a snapshot from the source file is the encoding of
\* the snapshot that this call computed.
C28_CacheHoldsOwnSnapshot ==
    [][(ld.pc = "save" /\ cache' # cache /\ cache'.kind = "gob") =>
          GobDecode(cache'.bytes) = ld.newData]_vars

\* the PrecomputedData l computed is the complete result of the lines it
\* read, and of nothing else
OwnResult(l) ==
    LET g == aggregateAll(ValidTxs(Tail(l.lines)), EmptyGroups)
    IN  \E o \in IterChoices(g), t \in 1..clock :
           l.newData = Finalize(g, o, Cardinality(ValidRows(l.lines)), t)

\* the PrecomputedData is the complete result of SetData's argument
SetDataResult ==
    \E o \in IterChoices(aggregateAll(sd.data, EmptyGroups)), t \in 1..clock :
       precomputed = computeAnalytics(sd.data, o, t)

\* C29: with two LoadFromCSV calls and a SetData call running concurrently,
\* the PrecomputedData changes only when one call installs its own complete
\* result: a streaming load the snapshot of the lines it read itself, with
\* their record count, a load with a cache hit the snapshot it decoded,
\* SetData, under the write lock, the snapshot of its argument; whenever no
\* writer holds the lock, and so after all calls have returned, the
\* installed snapshot is one of these results, whole.
C29_NoLeakBetweenCalls ==
    /\ [][precomputed' # precomputed =>
             \/ ld.pc = "swap" /\ precomputed' = ld.newData /\ OwnResult(ld)
             \/ ld.pc = "hit" /\ precomputed' = ld.cached
                              /\ ld.cached \in installed
             \/ mu.writer /\ sd.pc \in {"locked", "computed", "counted"}]_vars
    /\ [][(sd.pc = "timed" /\ sd'.pc = "idle") => SetDataResult]_vars
    /\ [](~mu.writer => precomputed \in installed)
    /\ []((ld.pc = "idle" /\ ld2.pc = "idle" /\ sd.pc = "idle") =>
             /\ precomputed = EmptyData =>
                   ~ld.wrote /\ ~ld2.wrote /\ sd.calls = 0
             /\ precomputed # EmptyData =>
                   \/ ld.wrote /\ ld.streamed /\ precomputed = ld.newData
                   \/ ld2.wrote /\ ld2.streamed /\ precomputed = ld2.newData
                   \/ sd.calls > 0 /\ SetDataResult)

\* both loads have streamed the file and swapped, at different times, SetData
\* has returned, and the snapshot in place is that of the load that is not
\* the one scheduled last
C29_Witness ==
    /\ ld.pc = "idle" /\ ld2.pc = "idle" /\ sd.pc = "idle"
    /\ sd.calls = 1
    /\ ld.wrote /\ ld.streamed /\ ld2.wrote /\ ld2.streamed
    /\ ld.newData.LastModified # ld2.newData.LastModified
    /\ precomputed = ld2.newData
    /\ precomputed.RecordCount = 2

\* C30: the snapshot that the cache check of LoadFromCSV accepts for
\* installation is the aggregate of the rows the source file holds when it is
\* checked, also when the file was rewritten while the load that wrote the
\* cache was processing it.
C30_CacheHitIsCurrent ==
    [][(ld.pc = "called" /\ ld'.pc = "hit") =>
          LET rows == IF file.lines = <<>> THEN <<>> ELSE Tail(file.lines)
              g == aggregateAll(ValidTxs(rows), EmptyGroups)
              d == ld'.cached
          IN  /\ d.RecordCount = Cardinality(ValidRows(file.lines))
              /\ Range(d.CountryRevenue) = Range(g.country)
              /\ Range(d.TopProducts) = Range(g.product)
              /\ {<<m.Month, m.Volume>> : m \in Range(d.MonthlySales)}
                    = {<<k, g.monthly[k]>> : k \in DOMAIN g.monthly}
              /\ Range(d.TopRegions) = Range(g.region)]_vars

\* C31: TopProducts(limit) and TopRegions(limit) return a value, never the
\* panic of an out-of-range slice expression, for every limit, negative ones
\* included, on the empty snapshot and on every other.
C31_NoPanicForAnyLimit ==
    (rd.pc = "done" /\ rd.op \in {"TopProducts", "TopRegions"}) =>
        ~rd.result.panic

\* C32: a CountryRevenue entry accumulates the transactions of one (country,
\* product name, category) triple only: its Transactions is the number of the
\* input transactions that have the entry's own triple, whatever characters
\* the three fields contain, the "|" of the map key included.
C32_EntryHoldsOneTriple ==
    Aggregated =>
        \A e \in Range(precomputed.CountryRevenue) :
            e.Transactions =
                Cardinality({i \in DOMAIN arg :
                    TripleOf(arg[i]) = <<e.Country, e.ProductName, e.Category>>})

\* the Transactions of the CountryRevenue entries of a snapshot
TransactionsOf(d) ==
    [i \in DOMAIN d.CountryRevenue |-> d.CountryRevenue[i].Transactions]

\* the Frequency of the TopProducts entries of a snapshot
FrequenciesOf(d) ==
    [i \in DOMAIN d.TopProducts |-> d.TopProducts[i].Frequency]

\* C33: in every snapshot installed by SetData or by a LoadFromCSV call, the
\* record count is the sum of Transactions over the CountryRevenue entries
\* and the sum of Frequency over the TopProducts entries: each counted
\* transaction is in each rollup once.
C33_CountIsSumOfRollups ==
    \A d \in installed :
        /\ d.RecordCount =
              SumOver(TransactionsOf(d), DOMAIN d.CountryRevenue)
        /\ d.RecordCount = SumOver(FrequenciesOf(d), DOMAIN d.TopProducts)

\* a computing load has just installed a snapshot of two records, and a
\* SetData call of two transactions has returned before
C33_Witness ==
    /\ ld.pc = "save"
    /\ ld.streamed
    /\ precomputed.RecordCount = 2
    /\ Len(precomputed.TopProducts) >= 1
    /\ sd.calls = 1
    /\ sd.pc = "idle"
    /\ Len(arg) = 2

\* C34: the four data sets of one HandleRefreshAll response (the country
\* table, productsData, monthlyData, regionsData) are those of one snapshot
\* among the snapshots published, also when SetData or LoadFromCSV installs a
\* snapshot while the handler runs.
C34_ResponseFromOneSnapshot ==
    rh.pc = "sent" =>
        \E s \in installed :
            /\ rh.countryData = renderCountryTable(s.CountryRevenue)
            /\ rh.productsData = ViewOf("TopProducts", maxProducts, s)
            /\ rh.monthlyData = s.MonthlySales
            /\ rh.regionsData = ViewOf("TopRegions", maxRegions, s)

\* the limiters made and not deleted
LiveLimiters == DOMAIN rl.made \ rl.deleted

\* the goroutines that hold a limiter returned or about to be returned
Holders == {c \in Clients : rq[c].pc \in {"unlock", "got", "ret"} /\ rq[c].limiter # 0}

\* C35: under any interleaving of getLimiter calls and cleanup goroutines
\* the rate limiter holds at most one limiter per key; the limiters not yet
\* deleted are the entries of the map; getLimiter calls that hold limiters
\* not yet deleted of one key hold the same one, the map's entry; each entry
\* has exactly one pending cleanup goroutine, the one started with it, and
\* keys without an entry have none; a step that removes an entry is the
\* step of the cleanup goroutine started with that entry.
C35_OneLimiterPerIP ==
    /\ [](/\ \A i, j \in LiveLimiters : rl.made[i] = rl.made[j] => i = j
          /\ \A i \in LiveLimiters :
                Has(rl.limiters, rl.made[i]) /\ rl.limiters[rl.made[i]] = i
          /\ \A k \in DOMAIN rl.limiters : rl.limiters[k] \in LiveLimiters
          /\ \A c, d \in Holders :
                (/\ rq[c].ip = rq[d].ip
                 /\ rq[c].limiter \in LiveLimiters
                 /\ rq[d].limiter \in LiveLimiters)
                => (/\ rq[c].limiter = rq[d].limiter
                    /\ Has(rl.limiters, rq[c].ip)
                    /\ rl.limiters[rq[c].ip] = rq[c].limiter)
          /\ \A k \in DOMAIN rl.limiters :
                {t.id : t \in {u \in rl.cleanups : u.ip = k}} = {rl.limiters[k]}
          /\ \A t \in rl.cleanups : Has(rl.limiters, t.ip)
          /\ \A t, u \in rl.cleanups : t.id = u.id => t = u)
    /\ [][\A k \in DOMAIN rl.limiters :
            ~Has(rl.limiters', k) =>
                \E t \in rl.cleanups \ rl.cleanups' :
                    t.ip = k /\ t.id = rl.limiters[k] /\ t.pc = "locked"]_vars

\* two calls for one key hold the same limiter at the same time, made after
\* the cleanup goroutine of an earlier limiter deleted its entry, while the
\* cleanup goroutine of the new one is pending
C35_Witness ==
    /\ rq[1].pc = "got"
    /\ rq[2].pc = "got"
    /\ rq[1].ip = rq[2].ip
    /\ rq[1].limiter = rq[2].limiter
    /\ rl.deleted # {}
    /\ \E t \in rl.cleanups : t.id = rq[1].limiter

\* the request of goroutine c was given to the RateLimit middleware and has
\* its response
ThroughRateLimit(c) ==
    /\ rq[c].pc = "done"
    /\ \E i \in DOMAIN rq[c].ran : rq[c].ran[i] = "RateLimit"

\* C36: a request whose client IP the limiter refuses never reaches the next
\* handler and gets HTTP 429 with the error code RATE_LIMIT_EXCEEDED and
\* success=false; with rate limiting disabled in the configuration every
\* request given to the RateLimit middleware is passed to the next handler.
C36_RefusedGets429 ==
    /\ [](\A c \in Clients :
            /\ (ThroughRateLimit(c) /\ ~rq[c].allowed) =>
                  /\ ~rq[c].reached
                  /\ rq[c].status = 429
                  /\ rq[c].code = "RATE_LIMIT_EXCEEDED"
                  /\ rq[c].success = FALSE
            /\ (ThroughRateLimit(c) /\ ~rl.enabled) =>
                  /\ rq[c].reached
                  /\ rq[c].limiter = 0)
    /\ [][\A c \in Clients :
            (rq[c].pc = "ret" /\ rq[c].idx > 0 /\ ~rq[c].allowed) =>
                ~rq'[c].reached]_vars

\* a request was refused by the limiter of its client IP and has its response
C36_Witness ==
    /\ rl.enabled
    /\ ThroughRateLimit(1)
    /\ ~rq[1].allowed
    /\ rq[1].limiter # 0
    /\ rq[1].status = 429

\* the requests charged to a limiter that came through the chain from an
\* address that is not a trusted proxy
Untrusted ==
    {x \in rl.charged :
        x.remote # <<>> /\ ~isTrustedProxy(x.remote, TrustedProxies)}

\* C37: with the chain main builds, the rate-limit key of a request whose
\* remote address is not a trusted proxy is the host of that address, and the
\* limiter charged is one made for that key; two such requests from the same
\* remote address have the same key whatever their X-Forwarded-For and
\* X-Real-IP headers are.
C37_KeyIsRemoteHost ==
    /\ \A x \in Untrusted :
          /\ x.ip = SplitHostPort(x.remote)
          /\ rl.made[x.id] = SplitHostPort(x.remote)
    /\ \A x, y \in Untrusted : x.remote = y.remote => x.ip = y.ip
    /\ \A c \in Clients :
          (rq[c].pc = "done" /\ rq[c].reached) =>
              rq[c].ran = MainMiddlewares \o <<"srv">>

\* two requests from the same address, not a trusted proxy, one with and one
\* without forwarding headers, were charged
C37_Witness ==
    \E x, y \in Untrusted :
        /\ x.remote = y.remote
        /\ x.sent = << <<>>, <<>> >>
        /\ y.sent = << <<" ", "y", ",", "z">>, <<"w">> >>

\* the goroutines of the hooks registered before shutdown was called, and the
\* goroutine of the HTTP server shutdown
StartedWith == {gs.hk[j] : j \in 1..gs.atStart} \cup {gs.srv}

\* C38: shutdown calls every hook registered before it started exactly once,
\* beside the HTTP server shutdown; it returns nil only if every one of them
\* and the server shutdown completed without error before the shutdown
\* context expired; if one of them failed it returns a non-nil error.
C38_NilOnlyIfAllDoneInTime ==
    /\ gs.pc \notin {"serving", "stopped", "called"} =>
          /\ Len(gs.hooks) >= gs.atStart
          /\ \A j \in 1..gs.atStart :
                gs.hooks[j] = gs.shutdownFn[j] /\ gs.hk[j].invoked <= 1
    /\ (gs.pc = "returned" /\ gs.result = "nil") =>
          \A g \in StartedWith :
              g.invoked = 1 /\ g.pc = "exited" /\ ~g.err /\ ~g.late
    /\ (gs.pc = "returned" /\ \E g \in StartedWith : g.err) =>
          gs.result # "nil"

\* the goroutines shutdown has started for the hooks and the server
Reporters == {gs.hk[j] : j \in DOMAIN gs.hk} \cup {gs.srv}

\* C39: shutdown always returns; when a hook or the HTTP server shutdown has
\* not finished, what it returns is the error of the shutdown context, which
\* has expired; and a goroutine that has an error to report is never blocked
\* on the error channel, which has room for every hook and the server.
C39_ShutdownAlwaysReturns ==
    /\ (gs.pc = "called") ~> (gs.pc = "returned")
    /\ [](/\ \A g \in Reporters : g.pc = "failed" => Len(gs.errChan) < gs.errCap
          /\ Len(gs.errChan) <= gs.errCap
          /\ (gs.pc = "returned" /\ \E g \in Reporters : g.pc # "exited") =>
                (gs.result = "ctx" /\ gs.ctx = "expired"))

\* shutdown has returned the context's error while a hook that never returns
\* is running and the error of another goroutine is in the channel
C39_Witness ==
    /\ gs.pc = "returned"
    /\ gs.result = "ctx"
    /\ \E j \in DOMAIN gs.hk : gs.hooks[j] = "hang" /\ gs.hk[j].pc = "running"
    /\ gs.errChan # <<>>

=============================================================================
